---- MODULE Spec2Model ----
(***************************************************************************)
(* Session lifecycle engine of bifrost (BifrostManager).                   *)
(*                                                                         *)
(* The repository carries two implementations of BifrostManager:           *)
(*   impl = "ssh2" : src/src/manager.ts     (in-process ssh2 Client)       *)
(*   impl = "cli"  : src/unnamed/part_006   (ssh ControlMaster processes)  *)
(* Both are modelled; impl is fixed at construction.                       *)
(*                                                                         *)
(* JavaScript runs every callback to completion, and the continuation of   *)
(* an awaited promise runs in the microtask checkpoint of the callback     *)
(* that settled it: an action is one callback together with the           *)
(* continuations it releases, up to the next wait on an external           *)
(* operation (socket, child process, timer).                               *)
(***************************************************************************)
EXTENDS Integers, Sequences, FiniteSets, TLC

\* ---------------------------------------------------------------- bounds
MaxCalls == 3
\* output collector: largest maxOutputBytes, longest stream (bytes)
MaxCap == 2
MaxBytes == 4
\* credential loader: longest explicit key list
MaxKeys == 2
\* registry: calls of connect and disconnect
MaxRCalls == 2
\* error classification: longest error text, in words
MaxWords == 3
\* server shorthand: longest input, in characters
MaxChars == 5

Calls == 1..MaxCalls
\* every doConnect creates one transport (a Client / an ssh -fN process);
\* a call runs doConnect at most once
Handles == 1..MaxCalls
RCalls == 1..MaxRCalls

Impls == {"ssh2", "cli"}
States == {"disconnected", "connecting", "connected", "disconnecting"}
LockedOps == {"connect", "disconnect", "ensureConnected"}
FreeOps == {"exec", "upload", "download"}
\* BifrostErrorCode, plus "Error" for a raw (non-Bifrost) exception
ErrorCodes == {"UNREACHABLE", "AUTH_FAILED", "SOCKET_DEAD", "COMMAND_FAILED",
               "INVALID_STATE", "TIMEOUT"}

\* Lower-cased indicator substrings an error text may contain.
ErrTexts == {{}, {"permission denied"}, {"connection refused"},
             {"permission denied", "connection refused"}}
\* Exit codes of a child process: success, command failure, ssh transport failure
ExitCodes == {0, 1, 255}

VARIABLES
  impl,     \* which BifrostManager implementation this Session is
  state,    \* _state
  config,   \* _config !== null (cli: _controlPath is set together with it)
  agent,    \* ssh2: _agent is set
  client,   \* ssh2: _client (0 = null, else the handle)
  hstat,    \* per transport: "unused" | "opening" | "ready" | "closing" | "closed"
  mutex,    \* _mutex: the chain of withMutex calls, head = the call whose fn runs
  calls,    \* per call: position and what it observed
  col,      \* the output collector of one stream of one exec
  managers,       \* BifrostRegistry.managers: the registered names, in Map order
  activeServer,   \* BifrostRegistry._activeServer
  defaultServer,  \* BifrostRegistry._defaultServer
  servers,        \* BifrostRegistry._config.servers: name -> identity sources
  sessions,       \* per registered name: the state of its BifrostManager
  rcalls,         \* per registry call: position and what it observed
  last,           \* the synchronous registry call made in the latest step
  env,            \* the process environment the registry runs in
  ldr,            \* one run of the credential loader
  pure            \* one application of a pure function: its input and result

registry == <<managers, activeServer, defaultServer, servers, sessions, rcalls,
              last, env, ldr, pure>>

vars == <<impl, state, config, agent, client, hstat, mutex, calls, col, registry>>

Manager == <<impl, state, config, agent, client, hstat, mutex, calls, col>>
Registry == <<managers, activeServer, defaultServer, servers, sessions, rcalls, last>>

\* null / undefined
NULL == "<null>"

\* op, pc: the call and where it waits; h: the transport it waits on;
\* res: its outcome; stBody: _state when fn started under the lock;
\* hs: times it reached the handshake; probe: outcome of its liveness probe;
\* issued: its command / copy was handed to the transport;
\* after: the connect() call that was still pending when this one was made;
\* aborted: the process running its command was told to stop
IdleCall == [op |-> "none", pc |-> "idle", res |-> "none", h |-> 0, hs |-> 0,
             stBody |-> "none", probe |-> "none", issued |-> FALSE, after |-> 0,
             aborted |-> FALSE]

\* ---------------------------------------------------- error classification
HasAny(msg, inds) == (msg \cap inds) # {}

AuthIndicators == {"authentication", "permission denied", "publickey",
                   "all configured authentication methods failed"}
ReachIndicators == {"connection refused", "no route to host", "timed out",
                    "could not resolve", "getaddrinfo", "econnrefused",
                    "etimedout", "ehostunreach", "enotfound"}

\* ssh2: translateSSHError(err)
translateSSHError(msg) ==
  IF HasAny(msg, AuthIndicators) THEN "AUTH_FAILED"
  ELSE IF HasAny(msg, ReachIndicators) THEN "UNREACHABLE"
  ELSE "COMMAND_FAILED"

CliAuthIndicators == {"permission denied", "authentication failed", "publickey"}
CliReachIndicators == {"connection refused", "no route to host",
                       "connection timed out", "could not resolve"}

\* a classification that looks at the text whatever the exit code is
translateSSHErrorCliTextFirst(exitCode, msg) ==
  IF HasAny(msg, CliAuthIndicators) THEN "AUTH_FAILED"
  ELSE IF exitCode = 255 \/ HasAny(msg, CliReachIndicators) THEN "UNREACHABLE"
  ELSE "COMMAND_FAILED"

\* cli: translateSSHError(exitCode, stderr)
translateSSHErrorCli(exitCode, msg) ==
  IF exitCode = 255
  THEN IF HasAny(msg, CliAuthIndicators) THEN "AUTH_FAILED"
       ELSE "UNREACHABLE"
  ELSE "COMMAND_FAILED"

\* ------------------------------------------------------------- helpers
NewHandle == CHOOSE h \in Handles : hstat[h] = "unused" /\ \A g \in Handles : g < h => hstat[g] # "unused"
HasFreeHandle == \E h \in Handles : hstat[h] = "unused"

\* client.end(): a live transport starts closing; anything else is unaffected
EndHandle(hs, h) ==
  IF h # 0 /\ hs[h] \in {"opening", "ready"} THEN [hs EXCEPT ![h] = "closing"] ELSE hs

\* withMutex without `await prev`: fn runs as soon as the call is made
MutexGrantsNoWait(c) == \E i \in DOMAIN mutex : mutex[i] = c

\* withMutex: fn of call c may run only when every earlier call has finished
MutexGrants(c) == mutex # <<>> /\ Head(mutex) = c

\* a withMutex without finally: a call that raises keeps the lock
FinishKeepsLockOnError(c, r) ==
  /\ calls' = [calls EXCEPT ![c] = [r EXCEPT !.pc = "done", !.h = 0]]
  /\ mutex' = IF calls[c].op \in LockedOps /\ r.res = "ok" THEN Tail(mutex) ELSE mutex

\* the call returns or raises; a withMutex call releases the lock (finally)
Finish(c, r) ==
  /\ calls' = [calls EXCEPT ![c] = [r EXCEPT !.pc = "done", !.h = 0]]
  /\ mutex' = IF calls[c].op \in LockedOps THEN Tail(mutex) ELSE mutex

\* no exec is collecting output
IdleCol == [pc |-> "idle", cap |-> 0, content |-> <<>>, pending |-> <<>>,
            chunks |-> <<>>, bytes |-> 0, truncated |-> FALSE,
            code |-> 0, signalled |-> FALSE,
            out |-> <<>>, exitCode |-> 0, thrown |-> "none"]

\* ------------------------------------------------- the registry at rest
\* "7" is an integer-like property name
ServerNames == {"a", "b", "c", "7"}

NoKeys == [keyPath |-> NULL, keys |-> <<>>, hostKeys |-> <<>>]
PosixEnv == [windows |-> FALSE, openSshAdd |-> FALSE, socket |-> FALSE]

\* cfg, oks: the inputs of the run; consulted, log, thrown: what it did
IdleLdr == [pc |-> "idle", cfg |-> NoKeys, oks |-> <<>>,
            consulted |-> FALSE, log |-> <<>>, thrown |-> FALSE]

IdleSession == [state |-> "disconnected", client |-> FALSE, lock |-> <<>>]

\* op, arg: the call; name: the Session it is working on; sop: the Session
\* operation it awaits; pc: where it waits; sres: the outcome of a Session
\* operation whose continuation has not run yet; res, out: its outcome;
\* steps: what it did, in order; log: what the credential loader did for
\* it (kept until the call returns);
\* todo, visited: the Sessions disconnect() still has to / did go through;
\* stRet: the Session's state when its operation returned; alone: no other
\* registry call was pending while it ran; swallowed: it caught an error
IdleRCall == [op |-> "none", arg |-> NULL, name |-> NULL, sop |-> "none",
              pc |-> "idle", sres |-> "none", res |-> "none", out |-> NULL,
              steps |-> <<>>, log |-> <<>>, todo |-> <<>>, visited |-> <<>>,
              stRet |-> "none", alone |-> FALSE, swallowed |-> FALSE]

IdleLast == [op |-> "none", arg |-> NULL, res |-> "none", out |-> NULL]

\* no pure function is being applied
IdlePure == [pc |-> "idle"]

\* a registry after construction
RegistryEmpty ==
  /\ managers = <<>>
  /\ activeServer = NULL
  /\ defaultServer = NULL
  /\ servers = [n \in ServerNames |-> NoKeys]
  /\ sessions = [n \in ServerNames |-> IdleSession]
  /\ rcalls = [k \in RCalls |-> IdleRCall]
  /\ last = IdleLast

RegistryIdle ==
  /\ RegistryEmpty
  /\ env = PosixEnv
  /\ ldr = IdleLdr

Init ==
  /\ impl \in Impls
  /\ state = "disconnected"
  /\ config = FALSE
  /\ agent = FALSE
  /\ client = 0
  /\ hstat = [h \in Handles |-> "unused"]
  /\ mutex = <<>>
  /\ calls = [c \in Calls |-> IdleCall]
  /\ col = IdleCol
  /\ RegistryIdle
  /\ pure = IdlePure

\* setConfig (ssh2) / loadConfig (cli)
SetConfig ==
  /\ ~config
  /\ config' = TRUE
  /\ UNCHANGED <<registry, col, impl, state, agent, client, hstat, mutex, calls>>

\* setAgent (ssh2)
SetAgent ==
  /\ impl = "ssh2"
  /\ ~agent
  /\ agent' = TRUE
  /\ UNCHANGED <<registry, col, impl, state, config, client, hstat, mutex, calls>>

\* ------------------------------------------------------ calls are issued
\* call slots are used in order; a slot is one call of the caller
CanIssue(c) ==
  /\ calls[c].pc = "idle"
  /\ \A d \in Calls : d < c => calls[d].pc # "idle"

Step(st, cl, hs) ==
  /\ state' = st
  /\ client' = cl
  /\ hstat' = hs
  /\ UNCHANGED <<registry, col, impl, config, agent>>

Wait(c, r) ==
  /\ calls' = [calls EXCEPT ![c] = r]
  /\ UNCHANGED mutex

\* the latest connect() call that has not returned yet (0: none)
PendingConnect ==
  LET P == {d \in Calls : calls[d].op = "connect" /\ calls[d].pc \notin {"idle", "done"}} IN
    IF P = {} THEN 0 ELSE CHOOSE d \in P : \A e \in P : e <= d

\* withMutex chaining the new call in front of the waiting ones
CallLockedJumpsQueue(c, o) ==
  /\ CanIssue(c)
  /\ o \in LockedOps
  /\ mutex' = <<c>> \o mutex
  /\ calls' = [calls EXCEPT ![c] = [IdleCall EXCEPT !.op = o, !.pc = "queued",
                                                    !.after = PendingConnect]]
  /\ UNCHANGED <<registry, col, impl, state, config, agent, client, hstat>>

\* withMutex(fn), up to `await prev`: the call joins the promise chain
CallLocked(c, o) ==
  /\ CanIssue(c)
  /\ o \in LockedOps
  /\ mutex' = Append(mutex, c)
  /\ calls' = [calls EXCEPT ![c] = [IdleCall EXCEPT !.op = o, !.pc = "queued",
                                                    !.after = PendingConnect]]
  /\ UNCHANGED <<registry, col, impl, state, config, agent, client, hstat>>

\* cli cleanup(): every control socket file is unlinked, a running master
\* can no longer be reached through the ControlPath
cleanup(hs) == [h \in Handles |-> IF hs[h] = "ready" THEN "closed" ELSE hs[h]]

\* doConnect up to its first wait; the caller has set state = "connecting"
\* and its catch block sets "disconnected" when doConnect throws
doConnect(c, r, cl, hs) ==
  IF ~config
  THEN Step("disconnected", cl, hs)
       /\ Finish(c, [r EXCEPT !.res = "INVALID_STATE"])
  ELSE IF impl = "ssh2" /\ ~agent
  THEN Step("disconnected", 0, EndHandle(hs, cl))
       /\ Finish(c, [r EXCEPT !.res = "AUTH_FAILED"])
  ELSE /\ HasFreeHandle
       /\ LET h == NewHandle IN
          /\ Step("connecting", IF impl = "ssh2" THEN h ELSE cl,
                  [EndHandle(hs, cl) EXCEPT ![h] = "opening"])
          /\ Wait(c, [r EXCEPT !.pc = "handshake", !.h = h, !.hs = @ + 1])

\* cli: cleanup(); await ensureSocketDir(); await doConnect()
connectSequence(c, r) ==
  IF impl = "ssh2"
  THEN doConnect(c, r, client, hstat)
  ELSE \E dirOk \in BOOLEAN :
         IF dirOk
         THEN doConnect(c, r, client, cleanup(hstat))
         ELSE Step("disconnected", client, cleanup(hstat))
              /\ Finish(c, [r EXCEPT !.res = "COMMAND_FAILED"])

\* connect() without the early return for an already connected Session
connectNoShortcut(c, r) ==
  IF state \in {"connecting", "disconnecting"}
  THEN Step(state, client, hstat) /\ Finish(c, [r EXCEPT !.res = "INVALID_STATE"])
  ELSE IF ~config
  THEN Step(state, client, hstat) /\ Finish(c, [r EXCEPT !.res = "INVALID_STATE"])
  ELSE connectSequence(c, r)

\* connect(): the function passed to withMutex
connect(c, r) ==
  IF state = "connected"
  THEN Step(state, client, hstat) /\ Finish(c, [r EXCEPT !.res = "ok"])
  ELSE IF state \in {"connecting", "disconnecting"}
  THEN Step(state, client, hstat) /\ Finish(c, [r EXCEPT !.res = "INVALID_STATE"])
  ELSE IF ~config
  THEN Step(state, client, hstat) /\ Finish(c, [r EXCEPT !.res = "INVALID_STATE"])
  ELSE connectSequence(c, r)

\* disconnect(): the function passed to withMutex
disconnect(c, r) ==
  IF state = "disconnected"
  THEN Step(state, client, hstat) /\ Finish(c, [r EXCEPT !.res = "ok"])
  ELSE IF state \in {"connecting", "disconnecting"}
  THEN Step(state, client, hstat) /\ Finish(c, [r EXCEPT !.res = "INVALID_STATE"])
  ELSE IF impl = "ssh2"
  THEN \* try { if (_client) { _client.end(); _client = null } } finally { disconnected }
       \E endThrows \in BOOLEAN :
         IF client # 0 /\ endThrows
         THEN Step("disconnected", client, hstat)
              /\ Finish(c, [r EXCEPT !.res = "Error"])
         ELSE Step("disconnected", 0, EndHandle(hstat, client))
              /\ Finish(c, [r EXCEPT !.res = "ok"])
  ELSE IF ~config
  THEN Step("disconnected", client, hstat)
       /\ Finish(c, [r EXCEPT !.res = "ok"])
  ELSE \* state = "disconnecting"; spawn ssh -O exit (a throw is swallowed)
       \E spawned \in BOOLEAN :
         IF spawned
         THEN Step("disconnecting", client, hstat) /\ Wait(c, [r EXCEPT !.pc = "closing"])
         ELSE Step("disconnected", client, hstat)
              /\ Finish(c, [r EXCEPT !.res = "ok"])

\* ensureConnected(): the function passed to withMutex
ensureConnected(c, r) ==
  IF state = "disconnected"
  THEN connectSequence(c, r)
  ELSE IF state \in {"connecting", "disconnecting"}
  THEN Step(state, client, hstat) /\ Finish(c, [r EXCEPT !.res = "INVALID_STATE"])
  ELSE IF impl = "ssh2" /\ client = 0
  THEN doConnect(c, r, client, hstat)
  ELSE IF impl = "cli" /\ ~config
  THEN doConnect(c, r, client, hstat)
  ELSE \* the liveness probe is issued
       Step(state, client, hstat)
       /\ Wait(c, [r EXCEPT !.pc = "probe", !.h = client])

\* withMutex after `await prev`: fn runs
BodyStart(c) ==
  /\ calls[c].pc = "queued"
  /\ MutexGrants(c)
  /\ LET r == [calls[c] EXCEPT !.stBody = state] IN
       CASE calls[c].op = "connect" -> connect(c, r)
         [] calls[c].op = "disconnect" -> disconnect(c, r)
         [] calls[c].op = "ensureConnected" -> ensureConnected(c, r)

\* -------------------------------------------------- ssh2 transport events
HandshakeOn(h) == {c \in Calls : calls[c].pc = "handshake" /\ calls[c].h = h}

\* client.on("ready"): clearTimeout; resolve()  -> caller sets "connected"
Ssh2Ready(h) ==
  /\ impl = "ssh2"
  /\ hstat[h] = "opening"
  /\ \E c \in HandshakeOn(h) :
       /\ Step("connected", client, [hstat EXCEPT ![h] = "ready"])
       /\ Finish(c, [calls[c] EXCEPT !.res = "ok"])

\* client.on("error"): clearTimeout; this._client = null; reject(translate(err))
Ssh2Error(h, msg) ==
  /\ impl = "ssh2"
  /\ hstat[h] \in {"opening", "ready"}
  /\ IF HandshakeOn(h) # {}
     THEN \E c \in HandshakeOn(h) :
            /\ Step("disconnected", 0, [hstat EXCEPT ![h] = "closing"])
            /\ Finish(c, [calls[c] EXCEPT !.res = translateSSHError(msg)])
     ELSE /\ Step(state, 0, [hstat EXCEPT ![h] = "closing"])
          /\ UNCHANGED <<calls, mutex>>

\* client.on("close"): if (_state === "connected") { disconnected; _client = null }
Ssh2Close(h) ==
  /\ impl = "ssh2"
  /\ hstat[h] \in {"ready", "closing"}
  /\ IF state = "connected"
     THEN Step("disconnected", 0, [hstat EXCEPT ![h] = "closed"])
     ELSE Step(state, client, [hstat EXCEPT ![h] = "closed"])
  /\ UNCHANGED <<calls, mutex>>

\* a handshake timeout whose caller has no catch block resetting the state
Ssh2ConnectTimerNoCatch(h) ==
  /\ impl = "ssh2"
  /\ hstat[h] = "opening"
  /\ \E c \in HandshakeOn(h) :
       /\ Step(state, client, [hstat EXCEPT ![h] = "closing"])
       /\ Finish(c, [calls[c] EXCEPT !.res = "TIMEOUT"])

\* doConnect's timer: client.end(); reject(TIMEOUT)
Ssh2ConnectTimer(h) ==
  /\ impl = "ssh2"
  /\ hstat[h] = "opening"
  /\ \E c \in HandshakeOn(h) :
       /\ Step("disconnected", client, [hstat EXCEPT ![h] = "closing"])
       /\ Finish(c, [calls[c] EXCEPT !.res = "TIMEOUT"])

\* an ensureConnected whose successful health check still replaces the transport
Ssh2ProbeOkReconnects(c) ==
  /\ impl = "ssh2"
  /\ calls[c].pc = "probe"
  /\ hstat[calls[c].h] = "ready"
  /\ Step(state, 0, EndHandle(hstat, client))
  /\ Finish(c, [calls[c] EXCEPT !.res = "ok", !.probe = "ok"])

\* ensureConnected's health check stream closes: resolve()
Ssh2ProbeOk(c) ==
  /\ impl = "ssh2"
  /\ calls[c].pc = "probe"
  /\ hstat[calls[c].h] = "ready"
  /\ Step(state, client, hstat)
  /\ Finish(c, [calls[c] EXCEPT !.res = "ok", !.probe = "ok"])

\* health check fails (5 s timer, exec error, stream error): release, reconnect
Ssh2ProbeFail(c) ==
  /\ impl = "ssh2"
  /\ calls[c].pc = "probe"
  /\ doConnect(c, [calls[c] EXCEPT !.probe = "fail"], 0, EndHandle(hstat, client))

\* ----------------------------------------------- cli child-process events
\* a ControlMaster is reachable through the ControlPath
MasterAlive(hs) == \E h \in Handles : hs[h] = "ready"

\* connect() without the catch block that resets the state
CliConnectExitNoCatch(c, code, msg) ==
  /\ impl = "cli"
  /\ calls[c].pc = "handshake"
  /\ hstat[calls[c].h] = "opening"
  /\ IF code = 0
     THEN /\ Step("connected", client, [hstat EXCEPT ![calls[c].h] = "ready"])
          /\ Finish(c, [calls[c] EXCEPT !.res = "ok"])
     ELSE /\ Step(state, client, [hstat EXCEPT ![calls[c].h] = "closed"])
          /\ Finish(c, [calls[c] EXCEPT !.res = translateSSHErrorCli(code, msg)])

\* doConnect: `ssh -fN` exits before the timer
CliConnectExit(c, code, msg) ==
  /\ impl = "cli"
  /\ calls[c].pc = "handshake"
  /\ hstat[calls[c].h] = "opening"
  /\ IF code = 0
     THEN /\ Step("connected", client, [hstat EXCEPT ![calls[c].h] = "ready"])
          /\ Finish(c, [calls[c] EXCEPT !.res = "ok"])
     ELSE /\ Step("disconnected", client, [hstat EXCEPT ![calls[c].h] = "closed"])
          /\ Finish(c, [calls[c] EXCEPT !.res = translateSSHErrorCli(code, msg)])

\* doConnect: withTimeout rejects; the ssh process is left running
CliConnectTimer(c) ==
  /\ impl = "cli"
  /\ calls[c].pc = "handshake"
  /\ Step("disconnected", client, hstat)
  /\ Finish(c, [calls[c] EXCEPT !.res = "TIMEOUT"])

\* an ssh -fN process nobody waits for any more comes up, or gives up
CliLateExit(h, up) ==
  /\ impl = "cli"
  /\ hstat[h] = "opening"
  /\ HandshakeOn(h) = {}
  /\ Step(state, client, [hstat EXCEPT ![h] = IF up THEN "ready" ELSE "closed"])
  /\ UNCHANGED <<calls, mutex>>

\* the ControlMaster dies (network loss, ControlPersist expiry, remote close)
CliMasterDies(h) ==
  /\ impl = "cli"
  /\ hstat[h] = "ready"
  /\ Step(state, client, [hstat EXCEPT ![h] = "closed"])
  /\ UNCHANGED <<calls, mutex>>

\* isConnected(): `ssh -O check` exits; alive = (exitCode === 0)
CliProbeDone(c) ==
  /\ impl = "cli"
  /\ calls[c].pc = "probe"
  /\ LET alive == MasterAlive(hstat)
         r == [calls[c] EXCEPT !.probe = IF alive THEN "ok" ELSE "fail"] IN
       IF calls[c].op = "ensureConnected"
       THEN IF alive
            THEN Step(state, client, hstat) /\ Finish(c, [r EXCEPT !.res = "ok"])
            ELSE doConnect(c, r, client, hstat)
       ELSE \* exec
            IF alive
            THEN Step(state, client, hstat)
                 /\ Wait(c, [r EXCEPT !.pc = "running", !.issued = TRUE])
            ELSE Step("disconnected", client, hstat)
                 /\ Finish(c, [r EXCEPT !.res = "SOCKET_DEAD"])

\* disconnect: `ssh -O exit` exits, fails or the 5 s timer fires; all swallowed
CliCloseDone(c, exited) ==
  /\ impl = "cli"
  /\ calls[c].pc = "closing"
  /\ Step("disconnected", client, IF exited THEN cleanup(hstat) ELSE hstat)
  /\ Finish(c, [calls[c] EXCEPT !.res = "ok"])

\* ------------------------------------------- exec / upload / download
\* exec(): checks, then (ssh2) execRaw issues the command, (cli) the probe starts
exec(c, r) ==
  IF state # "connected"
  THEN Finish(c, [r EXCEPT !.res = "INVALID_STATE"])
  ELSE IF impl = "ssh2"
  THEN IF client = 0
       THEN Finish(c, [r EXCEPT !.res = "INVALID_STATE"])
       ELSE IF hstat[client] # "ready"
       THEN \* client.exec throws "Not connected" inside the executor
            Finish(c, [r EXCEPT !.res = "Error"])
       ELSE Wait(c, [r EXCEPT !.pc = "running", !.h = client, !.issued = TRUE])
  ELSE IF ~config
       THEN Finish(c, [r EXCEPT !.res = "INVALID_STATE"])
       ELSE Wait(c, [r EXCEPT !.pc = "probe"])

\* ssh2 getSftp() / cli runSftp(), up to the first wait
sftpStart(c, r) ==
  IF state # "connected"
  THEN Finish(c, [r EXCEPT !.res = "INVALID_STATE"])
  ELSE IF impl = "ssh2"
  THEN IF client = 0
       THEN Finish(c, [r EXCEPT !.res = "INVALID_STATE"])
       ELSE Wait(c, [r EXCEPT !.pc = "sftp", !.h = client])
  ELSE IF ~config
       THEN Finish(c, [r EXCEPT !.res = "INVALID_STATE"])
       ELSE Wait(c, [r EXCEPT !.pc = "copy", !.issued = TRUE])

\* exec / upload / download that join the lock chain when the lock is held
CallFreeBehindLock(c, o) ==
  /\ CanIssue(c)
  /\ o \in FreeOps
  /\ LET r == [IdleCall EXCEPT !.op = o] IN
       IF mutex # <<>>
       THEN /\ mutex' = Append(mutex, c)
            /\ calls' = [calls EXCEPT ![c] = [r EXCEPT !.pc = "queued"]]
       ELSE IF o = "exec" THEN exec(c, r) ELSE sftpStart(c, r)
  /\ UNCHANGED <<registry, col, impl, state, config, agent, client, hstat>>

\* exec / upload / download are called: no withMutex
CallFree(c, o) ==
  /\ CanIssue(c)
  /\ o \in FreeOps
  /\ LET r == [IdleCall EXCEPT !.op = o] IN
       IF o = "exec" THEN exec(c, r) ELSE sftpStart(c, r)
  /\ UNCHANGED <<registry, col, impl, state, config, agent, client, hstat>>

\* the command's channel closes / the ssh process exits: a result is returned
ExecDone(c) ==
  /\ calls[c].pc = "running"
  /\ impl = "ssh2" => hstat[calls[c].h] = "ready"
  /\ impl = "cli" => MasterAlive(hstat)
  /\ Finish(c, [calls[c] EXCEPT !.res = "ok"])
  /\ UNCHANGED <<registry, col, impl, state, config, agent, client, hstat>>

\* ssh2: client.exec calls back with an error, or the stream errors
Ssh2ExecError(c, msg) ==
  /\ impl = "ssh2"
  /\ calls[c].pc = "running"
  /\ Finish(c, [calls[c] EXCEPT !.res = translateSSHError(msg)])
  /\ UNCHANGED <<registry, col, impl, state, config, agent, client, hstat>>

\* the exec timer fires.  ssh2: the timer callback only rejects, the channel
\* stays open and nothing is sent to the remote process.  cli: withTimeout
\* rejects and the catch block calls proc.kill() before rethrowing
ExecTimer(c) ==
  /\ calls[c].pc = "running"
  /\ Finish(c, [calls[c] EXCEPT !.res = "TIMEOUT", !.aborted = (impl = "cli")])
  /\ UNCHANGED <<registry, col, impl, state, config, agent, client, hstat>>

\* ssh2 getSftp: client.sftp calls back
Ssh2SftpOpened(c) ==
  /\ impl = "ssh2"
  /\ calls[c].pc = "sftp"
  /\ hstat[calls[c].h] = "ready"
  /\ Wait(c, [calls[c] EXCEPT !.pc = "copy", !.issued = TRUE])
  /\ UNCHANGED <<registry, col, impl, state, config, agent, client, hstat>>

Ssh2SftpOpenError(c, msg) ==
  /\ impl = "ssh2"
  /\ calls[c].pc = "sftp"
  /\ Finish(c, [calls[c] EXCEPT !.res = translateSSHError(msg)])
  /\ UNCHANGED <<registry, col, impl, state, config, agent, client, hstat>>

\* fastPut / fastGet call back (ssh2); sftp exits (cli)
CopyDone(c, code, msg) ==
  /\ calls[c].pc = "copy"
  /\ code = 0 => IF impl = "ssh2" THEN hstat[calls[c].h] = "ready" ELSE MasterAlive(hstat)
  /\ LET res == IF code = 0 THEN "ok"
                ELSE IF impl = "ssh2" THEN "COMMAND_FAILED"
                ELSE translateSSHErrorCli(code, msg) IN
       Finish(c, [calls[c] EXCEPT !.res = res])
  /\ UNCHANGED <<registry, col, impl, state, config, agent, client, hstat>>

\* cli runSftp: withTimeout rejects
CliCopyTimer(c) ==
  /\ impl = "cli"
  /\ calls[c].pc = "copy"
  /\ Finish(c, [calls[c] EXCEPT !.res = "TIMEOUT"])
  /\ UNCHANGED <<registry, col, impl, state, config, agent, client, hstat>>

\* ------------------------------------------------------------------ Next
Next ==
  \/ SetConfig
  \/ SetAgent
  \/ \E c \in Calls, o \in LockedOps : CallLocked(c, o)
  \/ \E c \in Calls, o \in FreeOps : CallFree(c, o)
  \/ \E c \in Calls : BodyStart(c)
  \/ \E h \in Handles : Ssh2Ready(h)
  \/ \E h \in Handles, msg \in ErrTexts : Ssh2Error(h, msg)
  \/ \E h \in Handles : Ssh2Close(h)
  \/ \E h \in Handles : Ssh2ConnectTimer(h)
  \/ \E c \in Calls : Ssh2ProbeOk(c)
  \/ \E c \in Calls : Ssh2ProbeFail(c)
  \/ \E c \in Calls, code \in ExitCodes, msg \in ErrTexts : CliConnectExit(c, code, msg)
  \/ \E c \in Calls : CliConnectTimer(c)
  \/ \E h \in Handles, up \in BOOLEAN : CliLateExit(h, up)
  \/ \E h \in Handles : CliMasterDies(h)
  \/ \E c \in Calls : CliProbeDone(c)
  \/ \E c \in Calls, exited \in BOOLEAN : CliCloseDone(c, exited)
  \/ \E c \in Calls : ExecDone(c)
  \/ \E c \in Calls, msg \in ErrTexts : Ssh2ExecError(c, msg)
  \/ \E c \in Calls : ExecTimer(c)
  \/ \E c \in Calls : Ssh2SftpOpened(c)
  \/ \E c \in Calls, msg \in ErrTexts : Ssh2SftpOpenError(c, msg)
  \/ \E c \in Calls, code \in ExitCodes, msg \in ErrTexts : CopyDone(c, code, msg)
  \/ \E c \in Calls : CliCopyTimer(c)

Spec == Init /\ [][Next]_vars

\* what the scheduler and the timers guarantee: a function whose turn has
\* come runs, and a pending timer fires; nothing is assumed of the transport
Fairness ==
  /\ \A c \in Calls : WF_vars(BodyStart(c))
  /\ \A h \in Handles : WF_vars(Ssh2ConnectTimer(h))
  /\ \A c \in Calls : WF_vars(CliConnectTimer(c))
  /\ \A c \in Calls : WF_vars(Ssh2ProbeFail(c))
  /\ \A c \in Calls : WF_vars(CliCloseDone(c, FALSE))
  /\ \A c \in Calls : WF_vars(ExecTimer(c))
  /\ \A c \in Calls : WF_vars(CliCopyTimer(c))

SpecLive == Init /\ [][Next]_vars /\ Fairness

TypeOK ==
  /\ impl \in Impls
  /\ state \in States
  /\ client \in 0..MaxCalls
  /\ \A c \in Calls : calls[c].res \in ErrorCodes \cup {"none", "ok", "Error"}

\* ------------------------------------------------------ output bounding
\* A stream is a sequence of chunks of bytes.  Three byte classes are enough
\* to exercise the UTF-8 decoder: an ASCII byte, the lead byte of a two-byte
\* character and a continuation byte.
ByteA == "0x61"
ByteLead == "0xC3"
ByteCont == "0xA9"
Bytes == {ByteA, ByteLead, ByteCont}

\* Buffer.toString("utf-8") / TextDecoder.decode: a text is a sequence of
\* characters; an ill-formed byte decodes to U+FFFD
RECURSIVE Decode(_)
Decode(b) ==
  IF b = <<>> THEN <<>>
  ELSE IF b[1] = ByteA THEN <<"a">> \o Decode(Tail(b))
  ELSE IF b[1] = ByteLead /\ Len(b) >= 2 /\ b[2] = ByteCont
       THEN <<"U+00E9">> \o Decode(Tail(Tail(b)))
  ELSE <<"U+FFFD">> \o Decode(Tail(b))

\* `\n... [truncated at ${maxOutput} bytes]`
TruncationSuffix(cap) ==
  <<"\n", ".", ".", ".", " ", "[truncated at ", ToString(cap), " bytes]">>

\* the chunks of content s when it is cut after the positions in cuts
RECURSIVE SplitAt(_, _, _)
SplitAt(s, cuts, from) ==
  IF from > Len(s) THEN <<>>
  ELSE LET ends == {k \in cuts \cup {Len(s)} : k >= from}
           nxt == CHOOSE k \in ends : \A j \in ends : k <= j
       IN <<SubSeq(s, from, nxt)>> \o SplitAt(s, cuts, nxt + 1)

Contents == UNION {[1..n -> Bytes] : n \in 0..MaxBytes}

\* exec has issued its command with maxOutputBytes = cap; the remote command
\* will write `content`, delivered in the chunks `pending`, and end with
\* exit code `code` (none when a signal ended it)
InitOut ==
  /\ impl \in Impls
  /\ state = "connected"
  /\ config = TRUE
  /\ agent = TRUE
  /\ client = 0
  /\ hstat = [h \in Handles |-> "unused"]
  /\ mutex = <<>>
  /\ calls = [c \in Calls |-> IdleCall]
  /\ RegistryIdle
  /\ pure = IdlePure
  /\ \E cap \in 1..MaxCap, s \in Contents, cuts \in SUBSET (1..(MaxBytes - 1)),
        code \in ExitCodes, sig \in BOOLEAN :
       /\ \A k \in cuts : k < Len(s)
       /\ sig => code = 0 /\ impl = "ssh2"
       /\ col = [IdleCol EXCEPT !.pc = "reading", !.cap = cap, !.content = s,
                                !.pending = SplitAt(s, cuts, 1),
                                !.code = code, !.signalled = sig]

Session == <<impl, state, config, agent, client, hstat, mutex, calls>>

\* the data handler comparing with >= : a chunk that just fits is cut
onDataOffByOne(k, data) ==
  IF k.bytes < k.cap
  THEN LET remaining == k.cap - k.bytes IN
         IF Len(data) >= remaining
         THEN [k EXCEPT !.chunks = @ \o SubSeq(data, 1, remaining),
                        !.truncated = TRUE,
                        !.bytes = @ + Len(data)]
         ELSE [k EXCEPT !.chunks = @ \o data, !.bytes = @ + Len(data)]
  ELSE k

\* ssh2 execRaw: stream.on("data") (stream.stderr.on("data") is the same code)
onData(k, data) ==
  IF k.bytes < k.cap
  THEN LET remaining == k.cap - k.bytes IN
         IF Len(data) > remaining
         THEN [k EXCEPT !.chunks = @ \o SubSeq(data, 1, remaining),
                        !.truncated = TRUE,
                        !.bytes = @ + Len(data)]
         ELSE [k EXCEPT !.chunks = @ \o data, !.bytes = @ + Len(data)]
  ELSE k

\* ssh2 execRaw: stream.on("close")
onClose(k) ==
  [k EXCEPT !.pc = "done",
            !.out = Decode(k.chunks) \o
                    (IF k.truncated THEN TruncationSuffix(k.cap) ELSE <<>>),
            !.exitCode = IF k.signalled THEN -1 ELSE k.code]

Ssh2OnData ==
  /\ impl = "ssh2"
  /\ col.pc = "reading"
  /\ col.pending # <<>>
  /\ col' = [onData(col, Head(col.pending)) EXCEPT !.pending = Tail(col.pending)]
  /\ UNCHANGED <<Session, registry>>

Ssh2OnClose ==
  /\ impl = "ssh2"
  /\ col.pc = "reading"
  /\ col.pending = <<>>
  /\ col' = onClose(col)
  /\ UNCHANGED <<Session, registry>>

\* cli readStreamLimited, after the loop: combine the chunks and decode.
\* combined has min(totalBytes, maxBytes) bytes; combined.set throws a
\* RangeError when the chunks do not fit
readStreamCombine(k) ==
  LET size == IF k.bytes < k.cap THEN k.bytes ELSE k.cap IN
    IF Len(k.chunks) > size
    THEN [k EXCEPT !.pc = "done", !.thrown = "RangeError"]
    ELSE [k EXCEPT !.pc = "done",
                   !.out = Decode(k.chunks) \o
                           (IF k.truncated THEN TruncationSuffix(k.cap) ELSE <<>>),
                   !.exitCode = k.code]

\* cli readStreamLimited: one reader.read() that returns a chunk
readStreamLimited(k, value) ==
  IF k.bytes + Len(value) > k.cap
  THEN LET remaining == k.cap - k.bytes IN
         readStreamCombine(
           [k EXCEPT !.chunks = IF remaining > 0
                                THEN @ \o SubSeq(value, 1, remaining) ELSE @,
                     !.truncated = TRUE])
  ELSE [k EXCEPT !.chunks = @ \o value, !.bytes = @ + Len(value)]

CliRead ==
  /\ impl = "cli"
  /\ col.pc = "reading"
  /\ col.pending # <<>>
  /\ col' = [readStreamLimited(col, Head(col.pending)) EXCEPT !.pending = Tail(col.pending)]
  /\ UNCHANGED <<Session, registry>>

\* cli readStreamLimited: reader.read() returns done
CliReadDone ==
  /\ impl = "cli"
  /\ col.pc = "reading"
  /\ col.pending = <<>>
  /\ col' = readStreamCombine(col)
  /\ UNCHANGED <<Session, registry>>

NextOut ==
  \/ Ssh2OnData
  \/ Ssh2OnClose
  \/ CliRead
  \/ CliReadDone

SpecOut == InitOut /\ [][NextOut]_vars

\* ------------------------------------------------- error texts, word by word
\* An error text is a sequence of words; String.includes is containment of a
\* phrase as consecutive words.
Words == {"permission", "denied", "connection", "refused", "timed", "out",
          "publickey", "authentication", "failed", "file",
          "Permission", "Connection", "PUBLICKEY", "Timed"}

\* String.prototype.toLowerCase, per word and per text
LowerWord(w) ==
  CASE w = "Permission" -> "permission"
    [] w = "Connection" -> "connection"
    [] w = "PUBLICKEY" -> "publickey"
    [] w = "Timed" -> "timed"
    [] w \in {"PaGeAnT", "PAGEANT"} -> "pageant"
    [] OTHER -> w
toLowerCase(text) == [i \in DOMAIN text |-> LowerWord(text[i])]

\* the words of an indicator phrase
PhraseWords(ind) ==
  CASE ind = "permission denied" -> <<"permission", "denied">>
    [] ind = "connection refused" -> <<"connection", "refused">>
    [] ind = "timed out" -> <<"timed", "out">>
    [] ind = "connection timed out" -> <<"connection", "timed", "out">>
    [] ind = "authentication failed" -> <<"authentication", "failed">>
    [] ind = "no route to host" -> <<"no", "route", "to", "host">>
    [] ind = "could not resolve" -> <<"could", "not", "resolve">>
    [] ind = "all configured authentication methods failed"
         -> <<"all", "configured", "authentication", "methods", "failed">>
    [] OTHER -> <<ind>>

\* text.includes(phrase)
includes(text, phrase) ==
  \E i \in 1..(Len(text) - Len(phrase) + 1) :
    SubSeq(text, i, i + Len(phrase) - 1) = phrase

\* the indicator phrases a text includes as it is
PhrasesIn(text) ==
  {ind \in AuthIndicators \cup ReachIndicators \cup CliAuthIndicators \cup CliReachIndicators :
     includes(text, PhraseWords(ind))}

ErrorTexts == UNION {[1..n -> Words] : n \in 0..MaxWords}

\* what a failed primitive hands to translateSSHError: ssh2 an Error with a
\* message; cli the exit code of the ssh / sftp process and its stderr
InitErr ==
  /\ impl \in Impls
  /\ state = "disconnected"
  /\ config = FALSE
  /\ agent = FALSE
  /\ client = 0
  /\ hstat = [h \in Handles |-> "unused"]
  /\ mutex = <<>>
  /\ calls = [c \in Calls |-> IdleCall]
  /\ col = IdleCol
  /\ RegistryIdle
  /\ \E text \in ErrorTexts, code \in ExitCodes \ {0} :
       pure = [pc |-> "ready", text |-> text,
               exitCode |-> IF impl = "cli" THEN code ELSE 0,
               code |-> "none"]

\* translateSSHError(err) / translateSSHError(exitCode, stderr)
Translate ==
  /\ pure.pc = "ready"
  /\ LET msg == PhrasesIn(toLowerCase(pure.text)) IN
       pure' = [pure EXCEPT !.pc = "done",
                            !.code = IF impl = "ssh2" THEN translateSSHError(msg)
                                     ELSE translateSSHErrorCli(pure.exitCode, msg)]
  /\ UNCHANGED <<Manager, Registry, env, ldr>>

SpecErr == InitErr /\ [][Translate]_vars

\* ------------------------------------------------------ agent endpoint
\* A value of SSH_AUTH_SOCK is a sequence of pieces: " " is white space,
\* "/" and "\\" are the separators, every other piece is a run of other
\* characters.  A value is [def, s]: whether it is defined, and its pieces.
Undefined == [def |-> FALSE, s |-> <<>>]
Str(v) == [def |-> TRUE, s |-> v]
WINDOWS_OPENSSH_AGENT_PIPE == <<"\\", "\\", ".", "\\", "pipe", "\\", "openssh-ssh-agent">>
Separators == {"/", "\\"}

\* String.prototype.trim
RECURSIVE trimStart(_)
trimStart(v) == IF v # <<>> /\ Head(v) = " " THEN trimStart(Tail(v)) ELSE v
RECURSIVE trimEnd(_)
trimEnd(v) ==
  IF v # <<>> /\ v[Len(v)] = " " THEN trimEnd(SubSeq(v, 1, Len(v) - 1)) ELSE v
trim(v) == trimEnd(trimStart(v))

\* /^[/\\][/\\]\.[/\\]pipe[/\\].+/.test(v)
isWindowsPipe(v) ==
  /\ Len(v) >= 7
  /\ v[1] \in Separators /\ v[2] \in Separators /\ v[3] = "."
  /\ v[4] \in Separators /\ v[5] = "pipe" /\ v[6] \in Separators

\* v.startsWith("/")
isLikelyPosixSock(v) == v # <<>> /\ v[1] = "/"

\* lower === "pageant", on the exact value only
IsSentinelExact(v) == v = <<"pageant">>

\* lower === "pageant"
IsSentinel(v) == toLowerCase(v) = <<"pageant">>

\* a resolution that sends every value starting with "/" to the named pipe
resolveAgentSocketNoPipeCheck(isWin, sshAuthSock) ==
  IF ~isWin THEN sshAuthSock
  ELSE LET envSock == IF sshAuthSock.def THEN trim(sshAuthSock.s) ELSE <<>> IN
    IF envSock = <<>> THEN Str(WINDOWS_OPENSSH_AGENT_PIPE)
    ELSE IF IsSentinel(envSock) THEN Str(<<"pageant">>)
    ELSE IF isLikelyPosixSock(envSock) THEN Str(WINDOWS_OPENSSH_AGENT_PIPE)
    ELSE Str(envSock)

\* resolveAgentSocket(isWin, sshAuthSock)
resolveAgentSocket(isWin, sshAuthSock) ==
  IF ~isWin THEN sshAuthSock
  ELSE LET envSock == IF sshAuthSock.def THEN trim(sshAuthSock.s) ELSE <<>> IN
    IF envSock = <<>> THEN Str(WINDOWS_OPENSSH_AGENT_PIPE)
    ELSE IF IsSentinel(envSock) THEN Str(<<"pageant">>)
    ELSE IF ~isWindowsPipe(envSock) /\ isLikelyPosixSock(envSock)
    THEN Str(WINDOWS_OPENSSH_AGENT_PIPE)
    ELSE Str(envSock)

\* values of SSH_AUTH_SOCK without surrounding white space: empty, the
\* sentinel in three spellings, named pipes with either separator, a named
\* pipe without a name, POSIX paths, and other values
SockValues ==
  LET PipeValues ==
        {<<a, b, ".", c, "pipe", d, "agent">> : a \in Separators, b \in Separators,
                                                c \in Separators, d \in Separators}
          \cup {WINDOWS_OPENSSH_AGENT_PIPE}
      CoreValues ==
        {<<>>, <<"pageant">>, <<"PaGeAnT">>, <<"PAGEANT">>, <<"pageant", "x">>,
         <<"/", "tmp", "/", "agent">>, <<"/", "/", ".", "/", "pipe", "/">>,
         <<"C:", "\\", "agent">>, <<"agent", " ", "x">>}
          \cup PipeValues
      Padding == {<<>>, <<" ">>}
  IN {Undefined} \cup {Str(l \o v \o r) : l \in Padding, v \in CoreValues, r \in Padding}

InitSock ==
  /\ impl = "ssh2"
  /\ state = "disconnected"
  /\ config = FALSE
  /\ agent = FALSE
  /\ client = 0
  /\ hstat = [h \in Handles |-> "unused"]
  /\ mutex = <<>>
  /\ calls = [c \in Calls |-> IdleCall]
  /\ col = IdleCol
  /\ RegistryIdle
  /\ \E isWin \in BOOLEAN, v \in SockValues :
       pure = [pc |-> "ready", isWin |-> isWin, sshAuthSock |-> v, out |-> Undefined]

\* getAgentSocket(): resolveAgentSocket(isWindows(), process.env.SSH_AUTH_SOCK)
getAgentSocket ==
  /\ pure.pc = "ready"
  /\ pure' = [pure EXCEPT !.pc = "done",
                          !.out = resolveAgentSocket(pure.isWin, pure.sshAuthSock)]
  /\ UNCHANGED <<Manager, Registry, env, ldr>>

SpecSock == InitSock /\ [][getAgentSocket]_vars

\* ------------------------------------------------------ server shorthand
\* A shorthand is a sequence of characters: the inputs are written with one
\* letter, two digits and the punctuation the parser and its patterns tell
\* apart; the default user brings the letters of "root".
\* The character classes of the two patterns: a-zA-Z, 0-9, or the character.
CharClass(c) ==
  CASE c \in {"a", "r", "o", "t"} -> "letter"
    [] c \in {"0", "1"} -> "digit"
    [] OTHER -> c

\* SAFE_HOST_PATTERN.test(h)
SAFE_HOST_PATTERN(h) ==
  /\ Len(h) >= 1
  /\ CharClass(h[1]) \in {"letter", "digit"}
  /\ CharClass(h[Len(h)]) \in {"letter", "digit"}
  /\ \A i \in 2..(Len(h) - 1) : CharClass(h[i]) \in {"letter", "digit", ".", "-"}

\* SAFE_USER_PATTERN.test(u)
SAFE_USER_PATTERN(u) ==
  /\ Len(u) >= 1
  /\ CharClass(u[1]) \in {"letter", "_"}
  /\ \A i \in 2..Len(u) : CharClass(u[i]) \in {"letter", "digit", "_", "-"}

\* a conversion that counts the characters instead of weighing the digits
NumberOfLength(s) ==
  [nan |-> FALSE, neg |-> FALSE, int |-> Len(s), whole |-> TRUE]

\* Number(s) of ECMAScript on these characters: "" is 0; an optional "-",
\* then digits with an optional "." and digits, or "." and digits; anything
\* else is NaN.  int: the value of the integer digits; whole: no non-zero
\* fraction digit (Number.isInteger).
Number(s) ==
  LET neg == s # <<>> /\ s[1] = "-"
      body == IF neg THEN Tail(s) ELSE s
      points == {i \in DOMAIN body : body[i] = "."}
      dot == IF points = {} THEN Len(body) + 1 ELSE CHOOSE i \in points : TRUE
      ip == SubSeq(body, 1, dot - 1)
      fp == SubSeq(body, dot + 1, Len(body))
      IsDigits(d) == \A i \in DOMAIN d : CharClass(d[i]) = "digit"
      DigitValue(c) == IF c = "1" THEN 1 ELSE 0
      RECURSIVE Value(_)
      Value(d) == IF d = <<>> THEN 0
                  ELSE 10 * Value(SubSeq(d, 1, Len(d) - 1)) + DigitValue(d[Len(d)])
      numeric == \/ s = <<>>
                 \/ /\ Cardinality(points) <= 1
                    /\ IsDigits(ip) /\ IsDigits(fp)
                    /\ Len(ip) + Len(fp) >= 1
  IN IF numeric
     THEN [nan |-> FALSE, neg |-> neg, int |-> Value(ip),
           whole |-> \A i \in DOMAIN fp : fp[i] = "0"]
     ELSE [nan |-> TRUE, neg |-> FALSE, int |-> 0, whole |-> FALSE]

\* a validation that checks the host only
ValidateHostOnly(host, user, port) ==
  IF ~SAFE_HOST_PATTERN(host) THEN [thrown |-> "Invalid host", value |-> host]
  ELSE [thrown |-> "none", host |-> host, user |-> user, port |-> port]

\* the two pattern checks and the return of parseServerShorthand; a thrown
\* Error carries the field it names and the value it quotes
Validate(host, user, port) ==
  IF ~SAFE_HOST_PATTERN(host) THEN [thrown |-> "Invalid host", value |-> host]
  ELSE IF ~SAFE_USER_PATTERN(user) THEN [thrown |-> "Invalid user", value |-> user]
  ELSE [thrown |-> "none", host |-> host, user |-> user, port |-> port]

\* parseServerShorthand(input); indices are those of the source (from 0)
parseServerShorthand(input) ==
  LET indexOf(s, ch) ==
        IF \E i \in DOMAIN s : s[i] = ch
        THEN (CHOOSE i \in DOMAIN s : s[i] = ch /\ \A k \in 1..(i - 1) : s[k] # ch) - 1
        ELSE -1
      lastIndexOf(s, ch) ==
        IF \E i \in DOMAIN s : s[i] = ch
        THEN (CHOOSE i \in DOMAIN s : s[i] = ch /\ \A k \in (i + 1)..Len(s) : s[k] # ch) - 1
        ELSE -1
      slice(s, from, to) == SubSeq(s, from + 1, to)
      atIndex == indexOf(input, "@")
      user == IF atIndex # -1 THEN slice(input, 0, atIndex) ELSE <<"r", "o", "o", "t">>
      remainder == IF atIndex # -1 THEN slice(input, atIndex + 1, Len(input)) ELSE input
      colonIndex == lastIndexOf(remainder, ":")
      portStr == slice(remainder, colonIndex + 1, Len(remainder))
      parsedPort == Number(portStr)
      taken == /\ colonIndex # -1
               /\ ~parsedPort.nan /\ parsedPort.whole
               /\ ~parsedPort.neg /\ parsedPort.int > 0
      port == IF taken THEN parsedPort.int ELSE 22
      host == IF taken THEN slice(remainder, 0, colonIndex) ELSE remainder
  IN Validate(host, user, port)

\* every string of at most MaxChars characters
InitShort ==
  /\ impl = "ssh2"
  /\ state = "disconnected"
  /\ config = FALSE
  /\ agent = FALSE
  /\ client = 0
  /\ hstat = [h \in Handles |-> "unused"]
  /\ mutex = <<>>
  /\ calls = [c \in Calls |-> IdleCall]
  /\ col = IdleCol
  /\ RegistryIdle
  /\ \E n \in 0..MaxChars :
       \E input \in [1..n -> {"a", "0", "1", ".", "-", "_", "@", ":"}] :
         pure = [pc |-> "ready", input |-> input, out |-> [thrown |-> "pending"]]

\* one call of parseServerShorthand
ParseShorthand ==
  /\ pure.pc = "ready"
  /\ pure' = [pure EXCEPT !.pc = "done", !.out = parseServerShorthand(pure.input)]
  /\ UNCHANGED <<Manager, Registry, env, ldr>>

SpecShort == InitShort /\ [][ParseShorthand]_vars

\* ------------------------------------------------------ credential loader
\* ensureKeysInAgent(config) is synchronous (execSync): one run is one step.
\* The identity paths of a parsed configuration were expanded by
\* resolveServerEntry, those of ~/.ssh/config by parseSSHConfig.  sources: keyPath (NULL or "" when absent), keys, and
\* hostKeys = what getSSHConfigKeysForHost(config.host) returns.
ListKeys == <<"id_list1", "id_list2", "id_list3">>

KeyConfigs ==
  [keyPath : {NULL, "", "/home/id_single"},
   keys : {SubSeq(ListKeys, 1, n) : n \in 0..MaxKeys},
   hostKeys : {<<>>, <<"id_alias">>}]

\* isWindows(), getWindowsOpenSshAdd() found a binary, getAgentSocket();
\* on Windows resolveAgentSocket always yields an endpoint
LoaderEnvs ==
  {e \in [windows : BOOLEAN, openSshAdd : BOOLEAN, socket : BOOLEAN] :
     /\ e.windows => e.socket
     /\ e.openSshAdd => e.windows}

\* the candidate identity paths (lines 778-791) and whether the host-alias
\* records were consulted
keyPaths(cfg) ==
  LET explicit == (IF cfg.keyPath \notin {NULL, ""} THEN <<cfg.keyPath>> ELSE <<>>)
                  \o cfg.keys
  IN IF explicit = <<>> THEN cfg.hostKeys ELSE explicit

consultsHostKeys(cfg) ==
  (IF cfg.keyPath \notin {NULL, ""} THEN <<cfg.keyPath>> ELSE <<>>) \o cfg.keys = <<>>

\* expandTildePathPublic(keyPath): a leading home reference is expanded,
\* any other path is returned as it is
expandTildePathPublic(p) == IF p = "~/id_single" THEN "/home/id_single" ELSE p

\* the attempts built for every key (lines 799-825)
attempts(e) ==
  (IF e.windows /\ e.openSshAdd
   THEN <<[command |-> "ssh-add.exe", override |-> e.socket, label |-> "windows-openssh"]>>
   ELSE <<>>)
  \o <<[command |-> "ssh-add", override |-> FALSE, label |-> "path-default"]>>
  \o (IF e.windows /\ e.socket
      THEN <<[command |-> "ssh-add", override |-> TRUE, label |-> "path-with-agent"]>>
      ELSE <<>>)

\* the attempt loop without `break`: every strategy is run
RECURSIVE tryAttemptsNoBreak(_, _)
tryAttemptsNoBreak(atts, ok) ==
  IF atts = <<>> THEN [tried |-> <<>>, success |-> FALSE]
  ELSE LET rest == tryAttemptsNoBreak(Tail(atts), ok) IN
         [tried |-> <<Head(atts)>> \o rest.tried,
          success |-> Head(atts).label \in ok \/ rest.success]

\* the attempt loop (lines 831-841): trySshAdd returns true or throws;
\* ok = the labels whose execSync would succeed for this key
RECURSIVE tryAttempts(_, _)
tryAttempts(atts, ok) ==
  IF atts = <<>> THEN [tried |-> <<>>, success |-> FALSE]
  ELSE IF Head(atts).label \in ok
  THEN [tried |-> <<Head(atts)>>, success |-> TRUE]
  ELSE LET rest == tryAttempts(Tail(atts), ok) IN
         [tried |-> <<Head(atts)>> \o rest.tried, success |-> rest.success]

\* a loader whose failed key aborts the run: the error escapes
ensureKeysInAgentFatal(cfg, e, oks) ==
  LET paths == keyPaths(cfg)
      one(i) == tryAttempts(attempts(e), oks[i])
      bad == {i \in 1..Len(paths) : ~one(i).success}
      stop == IF bad = {} THEN Len(paths) ELSE CHOOSE i \in bad : \A j \in bad : i <= j
  IN [log |-> [i \in 1..stop |->
                 [key |-> expandTildePathPublic(paths[i]), tried |-> one(i).tried,
                  success |-> one(i).success, warned |-> ~one(i).success]],
      thrown |-> bad # {}]

\* ensureKeysInAgent (lines 777-854): per key the attempts, a warning when
\* all of them threw; nothing is thrown to the caller.
\* oks[i] = the labels that would succeed for the i-th key
ensureKeysInAgent(cfg, e, oks) ==
  LET paths == keyPaths(cfg)
      one(i) == tryAttempts(attempts(e), oks[i])
  IN [log |-> [i \in 1..Len(paths) |->
                 [key |-> expandTildePathPublic(paths[i]), tried |-> one(i).tried,
                  success |-> one(i).success, warned |-> ~one(i).success]],
      thrown |-> FALSE]

\* the strategies that can be told apart for the keys of cfg
LoaderOutcomes(cfg, e) ==
  [1..Len(keyPaths(cfg)) -> SUBSET {attempts(e)[i].label : i \in DOMAIN attempts(e)}]


\* ---------------------------------------------------------------- registry
\* BifrostRegistry (src/src/manager.ts 856-1006) over ssh2 BifrostManagers.
\* A Session is kept as its _state, whether _client is set, and the chain of
\* registry calls waiting on its withMutex; its operations are the ones of
\* the manager above.

\* the configuration files: the servers as declared, and `default`
ConfigFiles == [servers : {<<"a", "b", "c">>, <<"b", "7">>}, default : {NULL, "b"}]
\* a name given to a call: a declared one, one that is not declared in the
\* loaded file, the empty string, or none
Args == ServerNames \cup {NULL, ""}

\* Object.keys / Object.entries of the parsed JSON object: integer-like
\* keys come first, then the other keys in the order they were declared
IsIndex(n) == n = "7"
ObjectKeys(d) == SelectSeq(d, IsIndex) \o SelectSeq(d, LAMBDA n : ~IsIndex(n))

\* the identity sources of the declared servers
ServerKeys(n) ==
  CASE n = "a" -> [keyPath |-> "/home/id_single", keys |-> <<>>, hostKeys |-> <<>>]
    [] n = "b" -> [keyPath |-> NULL, keys |-> SubSeq(ListKeys, 1, 2), hostKeys |-> <<>>]
    [] n = "c" -> [keyPath |-> NULL, keys |-> <<>>, hostKeys |-> <<"id_alias">>]
    [] OTHER -> NoKeys

\* managers.has(name)
has(name) == \E i \in DOMAIN managers : managers[i] = name

\* resolveName preferring the default over the active name
resolveNameDefaultFirst(serverName) ==
  LET name == IF serverName # NULL THEN serverName
              ELSE IF defaultServer # NULL THEN defaultServer
              ELSE activeServer
  IN IF name \in {NULL, ""}
     THEN IF managers = <<>>
          THEN [res |-> "INVALID_STATE", name |-> NULL]
          ELSE [res |-> "ok", name |-> Head(managers)]
     ELSE IF ~has(name)
     THEN [res |-> "INVALID_STATE", name |-> NULL]
     ELSE [res |-> "ok", name |-> name]

\* resolveName(serverName?): `serverName ?? _activeServer ?? _defaultServer`,
\* then `if (!name)`: null, undefined and "" all take the first-key branch
resolveName(serverName) ==
  LET name == IF serverName # NULL THEN serverName
              ELSE IF activeServer # NULL THEN activeServer
              ELSE defaultServer
  IN IF name \in {NULL, ""}
     THEN IF managers = <<>>
          THEN [res |-> "INVALID_STATE", name |-> NULL]
          ELSE [res |-> "ok", name |-> Head(managers)]
     ELSE IF ~has(name)
     THEN [res |-> "INVALID_STATE", name |-> NULL]
     ELSE [res |-> "ok", name |-> name]

\* get connectedCount
connectedCount == Cardinality({i \in DOMAIN managers : sessions[managers[i]].state = "connected"})

\* ------------------------------------- the Session operations, per Session
\* doConnect up to its first wait (register called setConfig, and setAgent
\* when getAgentSocket() yielded an endpoint)
SessionDoConnect(s) ==
  IF ~env.socket
  THEN [s |-> [s EXCEPT !.state = "disconnected", !.client = FALSE],
        pc |-> "settled", sres |-> "AUTH_FAILED"]
  ELSE [s |-> [s EXCEPT !.state = "connecting", !.client = TRUE],
        pc |-> "handshake", sres |-> "none"]

\* ensureConnected(): the function passed to withMutex, up to its first wait
SessionEnsureConnected(s) ==
  IF s.state = "disconnected" THEN SessionDoConnect(s)
  ELSE IF s.state \in {"connecting", "disconnecting"}
  THEN [s |-> s, pc |-> "settled", sres |-> "INVALID_STATE"]
  ELSE IF ~s.client THEN SessionDoConnect(s)
  ELSE [s |-> s, pc |-> "probe", sres |-> "none"]

\* disconnect(): the function passed to withMutex; it never waits
SessionDisconnect(s, endThrows) ==
  IF s.state = "disconnected"
  THEN [s |-> s, pc |-> "settled", sres |-> "ok"]
  ELSE IF s.state \in {"connecting", "disconnecting"}
  THEN [s |-> s, pc |-> "settled", sres |-> "INVALID_STATE"]
  ELSE IF s.client /\ endThrows
  THEN [s |-> [s EXCEPT !.state = "disconnected"], pc |-> "settled", sres |-> "Error"]
  ELSE [s |-> [s EXCEPT !.state = "disconnected", !.client = FALSE],
        pc |-> "settled", sres |-> "ok"]


\* one run of ensureKeysInAgent(config) in some environment
InitKeys ==
  /\ impl = "ssh2"
  /\ state = "disconnected"
  /\ config = FALSE
  /\ agent = FALSE
  /\ client = 0
  /\ hstat = [h \in Handles |-> "unused"]
  /\ mutex = <<>>
  /\ calls = [c \in Calls |-> IdleCall]
  /\ col = IdleCol
  /\ RegistryEmpty
  /\ pure = IdlePure
  /\ env \in LoaderEnvs
  /\ \E cfg \in KeyConfigs : ldr = [IdleLdr EXCEPT !.pc = "ready", !.cfg = cfg]

LoadKeys ==
  /\ ldr.pc = "ready"
  /\ \E oks \in LoaderOutcomes(ldr.cfg, env) :
       LET r == ensureKeysInAgent(ldr.cfg, env, oks) IN
         ldr' = [ldr EXCEPT !.pc = "done", !.oks = oks,
                            !.consulted = consultsHostKeys(ldr.cfg),
                            !.log = r.log, !.thrown = r.thrown]
  /\ UNCHANGED <<Manager, Registry, env, pure>>

SpecKeys == InitKeys /\ [][LoadKeys]_vars

\* ------------------------------------------- registry calls, step by step
\* R = [sess, calls, active] is the registry while one callback and the
\* continuations it releases run.
\* withMutex after `await prev`: fn of call k runs up to its first wait
RunBody(R, k, endThrows) ==
  LET n == R.calls[k].name
      s == R.sess[n]
      b == IF R.calls[k].sop = "ensureConnected"
           THEN SessionEnsureConnected(s)
           ELSE SessionDisconnect(s, endThrows)
  IN [R EXCEPT !.sess[n] = b.s, !.calls[k].pc = b.pc, !.calls[k].sres = b.sres]

\* a withMutex whose lock is shared by every Session of the registry
StartOpSharedLock(R, k, n, sop, endThrows) ==
  LET R1 == [R EXCEPT !.sess[n].lock = Append(@, k),
                      !.calls[k].name = n, !.calls[k].sop = sop,
                      !.calls[k].pc = "queued", !.calls[k].sres = "none"]
  IN IF \A m \in ServerNames : R.sess[m].lock = <<>> THEN RunBody(R1, k, endThrows) ELSE R1

\* manager.ensureConnected() / manager.disconnect() is called for call k:
\* withMutex chains it; with a free lock fn runs in the same job
StartOp(R, k, n, sop, endThrows) ==
  LET R1 == [R EXCEPT !.sess[n].lock = Append(@, k),
                      !.calls[k].name = n, !.calls[k].sop = sop,
                      !.calls[k].pc = "queued", !.calls[k].sres = "none"]
  IN IF R.sess[n].lock = <<>> THEN RunBody(R1, k, endThrows) ELSE R1

\* a loop that ends at the first Session whose disconnect failed
DisconnectNextStops(R, k, endThrows) ==
  LET c == R.calls[k] IN
    IF c.swallowed
    THEN [R EXCEPT !.calls[k] = [c EXCEPT !.pc = "done", !.res = "ok"]]
    ELSE IF c.todo = <<>>
    THEN [R EXCEPT !.active = NULL,
                   !.calls[k] = [c EXCEPT !.pc = "done", !.res = "ok"]]
    ELSE StartOp([R EXCEPT !.calls[k].todo = Tail(@),
                           !.calls[k].visited = Append(@, Head(c.todo))],
                 k, Head(c.todo), "disconnect", endThrows)

\* disconnect(): the for loop over managers.values(), then _activeServer = null
DisconnectNext(R, k, endThrows) ==
  LET c == R.calls[k] IN
    IF c.todo = <<>>
    THEN [R EXCEPT !.active = NULL,
                   !.calls[k] = [c EXCEPT !.pc = "done", !.res = "ok"]]
    ELSE StartOp([R EXCEPT !.calls[k].todo = Tail(@),
                           !.calls[k].visited = Append(@, Head(c.todo))],
                 k, Head(c.todo), "disconnect", endThrows)

\* connect() whose continuation forgets to mark the server active
ContinueKeepsActive(R, k, r, endThrows) ==
  LET c == R.calls[k] IN
    CASE c.op = "connect" ->
           IF r = "ok"
           THEN [R EXCEPT !.calls[k] = [c EXCEPT !.pc = "done", !.res = "ok", !.out = c.name,
                                                 !.log = <<>>,
                                                 !.steps = Append(@, "activeServer")]]
           ELSE [R EXCEPT !.calls[k] = [c EXCEPT !.pc = "done", !.res = r, !.log = <<>>]]
      [] c.op = "disconnect" /\ c.arg \notin {NULL, ""} ->
           IF r = "ok"
           THEN [R EXCEPT !.active = IF @ = c.arg THEN NULL ELSE @,
                          !.calls[k] = [c EXCEPT !.pc = "done", !.res = "ok"]]
           ELSE [R EXCEPT !.calls[k] = [c EXCEPT !.pc = "done", !.res = r, !.log = <<>>]]
      [] OTHER ->
           DisconnectNext([R EXCEPT !.calls[k].swallowed = @ \/ r # "ok"], k, endThrows)

\* a connect() that marks the server active even when the handshake failed
ContinueMarksActiveOnFailure(R, k, r, endThrows) ==
  LET c == R.calls[k] IN
    CASE c.op = "connect" ->
           IF r = "ok"
           THEN [R EXCEPT !.active = c.name,
                          !.calls[k] = [c EXCEPT !.pc = "done", !.res = "ok", !.out = c.name,
                                                 !.log = <<>>,
                                                 !.steps = Append(@, "activeServer")]]
           ELSE [R EXCEPT !.active = c.name,
                          !.calls[k] = [c EXCEPT !.pc = "done", !.res = r, !.log = <<>>]]
      [] c.op = "disconnect" /\ c.arg \notin {NULL, ""} ->
           IF r = "ok"
           THEN [R EXCEPT !.active = IF @ = c.arg THEN NULL ELSE @,
                          !.calls[k] = [c EXCEPT !.pc = "done", !.res = "ok"]]
           ELSE [R EXCEPT !.calls[k] = [c EXCEPT !.pc = "done", !.res = r, !.log = <<>>]]
      [] OTHER ->
           DisconnectNext([R EXCEPT !.calls[k].swallowed = @ \/ r # "ok"], k, endThrows)

\* the continuation of call k after `await manager.ensureConnected()` /
\* `await manager.disconnect()` settled with r
Continue(R, k, r, endThrows) ==
  LET c == R.calls[k] IN
    CASE c.op = "connect" ->
           \* this._activeServer = name; return { name, manager }
           IF r = "ok"
           THEN [R EXCEPT !.active = c.name,
                          !.calls[k] = [c EXCEPT !.pc = "done", !.res = "ok", !.out = c.name,
                                                 !.log = <<>>,
                                                 !.steps = Append(@, "activeServer")]]
           ELSE [R EXCEPT !.calls[k] = [c EXCEPT !.pc = "done", !.res = r, !.log = <<>>]]
      [] c.op = "disconnect" /\ c.arg \notin {NULL, ""} ->
           \* if (this._activeServer === serverName) this._activeServer = null
           IF r = "ok"
           THEN [R EXCEPT !.active = IF @ = c.arg THEN NULL ELSE @,
                          !.calls[k] = [c EXCEPT !.pc = "done", !.res = "ok"]]
           ELSE [R EXCEPT !.calls[k] = [c EXCEPT !.pc = "done", !.res = r, !.log = <<>>]]
      [] OTHER ->
           \* try { await manager.disconnect() } catch {}: next manager
           DisconnectNext([R EXCEPT !.calls[k].swallowed = @ \/ r # "ok"], k, endThrows)

\* The Session operation of call k settles with r (R.sess holds what its fn
\* did).  withMutex's finally releases the lock, which queues the fn of the
\* next waiting call; the promise of k's operation is adopted by the async
\* ensureConnected()/disconnect() wrapper, so the awaiting registry call is
\* resumed one job later: the next fn runs before k's continuation.
Complete(R, k, r, endThrows) ==
  LET n == R.calls[k].name
      R1 == [R EXCEPT !.sess[n].lock = Tail(@),
                      !.calls[k].stRet = R.sess[n].state, !.calls[k].sres = r]
      R2 == IF R1.sess[n].lock # <<>>
            THEN RunBody(R1, Head(R1.sess[n].lock), endThrows)
            ELSE R1
  IN Continue(R2, k, r, endThrows)

\* _client.end() may throw only where the fn of a disconnect can run
EndChoices ==
  IF \E j \in RCalls : (rcalls[j].sop = "disconnect" /\ rcalls[j].pc = "queued")
                          \/ rcalls[j].todo # <<>>
  THEN BOOLEAN ELSE {FALSE}

Now == [sess |-> sessions, calls |-> rcalls, active |-> activeServer]

Becomes(R) ==
  /\ sessions' = R.sess
  /\ rcalls' = R.calls
  /\ activeServer' = R.active
  /\ last' = IdleLast
  /\ UNCHANGED <<Manager, managers, defaultServer, servers, env, ldr, pure>>

\* a synchronous call returns to its caller before anything else runs
NoSyncCall == last = IdleLast

\* call slots are used in order
RCanIssue(k) ==
  /\ NoSyncCall
  /\ rcalls[k].pc = "idle"
  /\ \A j \in RCalls : j < k => rcalls[j].pc # "idle"

Pending(cs) == {j \in RCalls : cs[j].pc \notin {"idle", "done"}}

\* call k is made with record c: calls that overlap are no longer alone
Issue(k, c) ==
  [Now EXCEPT !.calls = [j \in RCalls |->
     IF j = k THEN [c EXCEPT !.alone = (Pending(rcalls) = {})]
     ELSE IF j \in Pending(rcalls) THEN [rcalls[j] EXCEPT !.alone = FALSE]
     ELSE rcalls[j]]]

\* loadConfig(): parseConfig accepted the file; every server is registered.
\* The adapters call it once, while registry.config is still null
loadConfig(file) ==
  /\ NoSyncCall
  /\ managers = <<>>
  /\ managers' = ObjectKeys(file.servers)
  /\ defaultServer' = IF file.default # NULL THEN file.default
                      ELSE Head(ObjectKeys(file.servers))
  /\ servers' = [n \in ServerNames |->
                   IF \E i \in DOMAIN file.servers : file.servers[i] = n
                   THEN ServerKeys(n) ELSE NoKeys]
  /\ sessions' = [n \in ServerNames |-> IdleSession]
  /\ last' = IdleLast
  /\ UNCHANGED <<Manager, activeServer, rcalls, env, ldr, pure>>

\* getManager(serverName?) / getServerConfig(serverName?): resolveName
getManager(serverName) ==
  /\ NoSyncCall
  /\ LET r == resolveName(serverName) IN
       last' = [op |-> "resolve", arg |-> serverName,
                res |-> r.res, out |-> r.name]
  /\ UNCHANGED <<Manager, managers, activeServer, defaultServer, servers,
                 sessions, rcalls, env, ldr, pure>>

\* switchTo without the registration check
switchToUnchecked(name) ==
  /\ NoSyncCall
  /\ name # NULL
  /\ activeServer' = name
  /\ last' = [op |-> "switchTo", arg |-> name,
              res |-> "ok", out |-> NULL]
  /\ UNCHANGED <<Manager, managers, defaultServer, servers, sessions, rcalls, env, ldr, pure>>

\* switchTo(name)
switchTo(name) ==
  /\ NoSyncCall
  /\ name # NULL
  /\ IF has(name)
     THEN /\ activeServer' = name
          /\ last' = [op |-> "switchTo", arg |-> name,
                      res |-> "ok", out |-> NULL]
     ELSE /\ activeServer' = activeServer
          /\ last' = [op |-> "switchTo", arg |-> name,
                      res |-> "INVALID_STATE", out |-> NULL]
  /\ UNCHANGED <<Manager, managers, defaultServer, servers, sessions, rcalls, env, ldr, pure>>

\* connect(serverName?) up to `await manager.ensureConnected()`
RegistryConnect(k, serverName) ==
  /\ RCanIssue(k)
  /\ LET r == resolveName(serverName)
         c == [IdleRCall EXCEPT !.op = "connect", !.arg = serverName] IN
       IF r.res # "ok"
       THEN Becomes(Issue(k, [c EXCEPT !.pc = "done", !.res = r.res,
                                       !.steps = <<"resolveName">>]))
       ELSE \E oks \in LoaderOutcomes(servers[r.name], env) :
              LET ld == ensureKeysInAgent(servers[r.name], env, oks) IN
                IF ld.thrown
                THEN Becomes(Issue(k, [c EXCEPT !.pc = "done", !.res = "Error",
                                                !.log = ld.log,
                                                !.steps = <<"resolveName", "ensureKeysInAgent">>]))
                ELSE Becomes(StartOp(
                       Issue(k, [c EXCEPT !.log = ld.log,
                                          !.steps = <<"resolveName", "ensureKeysInAgent",
                                                      "ensureConnected">>]),
                       k, r.name, "ensureConnected", FALSE))

\* disconnect(serverName?) up to its first `await manager.disconnect()`
RegistryDisconnect(k, serverName, endThrows) ==
  /\ RCanIssue(k)
  /\ LET c == [IdleRCall EXCEPT !.op = "disconnect", !.arg = serverName] IN
       IF serverName \notin {NULL, ""}
       THEN IF has(serverName)
            THEN Becomes(StartOp(Issue(k, c), k, serverName, "disconnect", endThrows))
            ELSE Becomes([Issue(k, [c EXCEPT !.pc = "done", !.res = "ok"])
                            EXCEPT !.active = IF @ = serverName THEN NULL ELSE @])
       ELSE Becomes(DisconnectNext(Issue(k, [c EXCEPT !.todo = managers]), k, endThrows))

\* ----------------------------------------------------- Session events
\* client.on("ready"): the handshake of call k succeeded
SessionReady(k, endThrows) ==
  /\ NoSyncCall
  /\ rcalls[k].pc = "handshake"
  /\ Becomes(Complete([Now EXCEPT !.sess[rcalls[k].name].state = "connected"],
                      k, "ok", endThrows))

\* client.on("error") during the handshake: _client = null, classified error
SessionConnectError(k, msg, endThrows) ==
  /\ NoSyncCall
  /\ rcalls[k].pc = "handshake"
  /\ Becomes(Complete([Now EXCEPT !.sess[rcalls[k].name].state = "disconnected",
                                  !.sess[rcalls[k].name].client = FALSE],
                      k, translateSSHError(msg), endThrows))

\* doConnect's timer: client.end(); TIMEOUT
SessionConnectTimer(k, endThrows) ==
  /\ NoSyncCall
  /\ rcalls[k].pc = "handshake"
  /\ Becomes(Complete([Now EXCEPT !.sess[rcalls[k].name].state = "disconnected"],
                      k, "TIMEOUT", endThrows))

\* ensureConnected's health check succeeds
SessionProbeOk(k, endThrows) ==
  /\ NoSyncCall
  /\ rcalls[k].pc = "probe"
  /\ sessions[rcalls[k].name].client
  /\ Becomes(Complete(Now, k, "ok", endThrows))

\* ensureConnected's health check fails: release, reconnect
SessionProbeFail(k) ==
  /\ NoSyncCall
  /\ rcalls[k].pc = "probe"
  /\ LET n == rcalls[k].name
         b == SessionDoConnect(sessions[n]) IN
       Becomes([Now EXCEPT !.sess[n] = b.s, !.calls[k].pc = b.pc,
                           !.calls[k].sres = b.sres])

\* a Session operation that did not have to wait has settled
SessionSettled(k, endThrows) ==
  /\ NoSyncCall
  /\ rcalls[k].pc = "settled"
  /\ Becomes(Complete(Now, k, rcalls[k].sres, endThrows))

\* client.on("close") on a connected Session
SessionClose(n) ==
  /\ NoSyncCall
  /\ has(n)
  /\ sessions[n].state = "connected"
  /\ Becomes([Now EXCEPT !.sess[n].state = "disconnected", !.sess[n].client = FALSE])

\* client.on("error") on an established transport: _client = null
SessionError(n) ==
  /\ NoSyncCall
  /\ has(n)
  /\ sessions[n].state = "connected"
  /\ sessions[n].client
  /\ Becomes([Now EXCEPT !.sess[n].client = FALSE])

\* the synchronous call returns: its caller has the outcome
Returned ==
  /\ ~NoSyncCall
  /\ last' = IdleLast
  /\ UNCHANGED <<Manager, managers, activeServer, defaultServer, servers,
                 sessions, rcalls, env, ldr, pure>>

InitReg ==
  /\ impl = "ssh2"
  /\ state = "disconnected"
  /\ config = FALSE
  /\ agent = FALSE
  /\ client = 0
  /\ hstat = [h \in Handles |-> "unused"]
  /\ mutex = <<>>
  /\ calls = [c \in Calls |-> IdleCall]
  /\ col = IdleCol
  /\ RegistryEmpty
  /\ pure = IdlePure
  /\ env \in {e \in LoaderEnvs : ~e.windows}
  /\ ldr = IdleLdr

NextReg ==
  \/ \E file \in ConfigFiles : loadConfig(file)
  \/ \E a \in Args : getManager(a)
  \/ \E a \in Args : switchTo(a)
  \/ \E k \in RCalls, a \in Args : RegistryConnect(k, a)
  \/ \E k \in RCalls, a \in Args, t \in BOOLEAN : RegistryDisconnect(k, a, t)
  \/ \E k \in RCalls, t \in EndChoices : SessionReady(k, t)
  \/ \E k \in RCalls, msg \in ErrTexts, t \in EndChoices : SessionConnectError(k, msg, t)
  \/ \E k \in RCalls, t \in EndChoices : SessionConnectTimer(k, t)
  \/ \E k \in RCalls, t \in EndChoices : SessionProbeOk(k, t)
  \/ \E k \in RCalls : SessionProbeFail(k)
  \/ \E k \in RCalls, t \in EndChoices : SessionSettled(k, t)
  \/ \E n \in ServerNames : SessionClose(n)
  \/ \E n \in ServerNames : SessionError(n)
  \/ Returned

SpecReg == InitReg /\ [][NextReg]_vars


\* ================================================================ claims
Returns(c) == calls[c].pc # "done" /\ calls'[c].pc = "done"
Issues(c) == calls[c].pc = "idle" /\ calls'[c].pc # "idle"

\* C1: exec, upload and download fail with INVALID_STATE if and only if the
\* Session's state at the moment of the call is not `connected`; a call made
\* while the state is `connected` never fails with INVALID_STATE.
C1_InvalidStateIffNotConnected ==
  [][\A c \in Calls :
       /\ (Issues(c) /\ calls'[c].op \in FreeOps)
            => ((calls'[c].res = "INVALID_STATE") <=> (state # "connected"))
       /\ (calls[c].op \in FreeOps /\ calls[c].pc # "idle" /\ Returns(c))
            => calls'[c].res # "INVALID_STATE"]_vars

C3_SecondNoopOrInvalid ==
  \A c \in Calls :
    (calls[c].op = "connect" /\ calls[c].after # 0 /\ calls[c].pc = "done"
       /\ calls[calls[c].after].hs = 1)
      => \/ calls[c].res = "ok" /\ calls[c].hs = 0
         \/ calls[c].res = "INVALID_STATE"

\* C3 (amended): the second of two concurrent connect() calls starts only
\* after the first has returned, never sees `connecting`/`disconnecting`;
\* from `connected` it returns without a handshake, from `disconnected` it
\* runs the connect sequence itself, at most one handshake.
C3_SecondWaitsThenActs ==
  \A c \in Calls :
    (calls[c].op = "connect" /\ calls[c].after # 0 /\ calls[c].pc \notin {"idle", "queued"})
      => /\ calls[calls[c].after].pc = "done"
         /\ calls[c].stBody \in {"connected", "disconnected"}
         /\ calls[c].stBody = "connected" => calls[c].hs = 0 /\ calls[c].pc = "done" /\ calls[c].res = "ok"
         /\ calls[c].hs <= 1
         /\ calls[c].hs = 1 => calls[c].stBody = "disconnected"

\* the second connect() ran its own handshake after the first one failed
C3_Witness ==
  \E c \in Calls :
    /\ calls[c].op = "connect" /\ calls[c].after # 0 /\ calls[c].pc = "done"
    /\ calls[c].hs = 1 /\ calls[c].res = "ok"
    /\ calls[calls[c].after].res \notin {"ok", "none"}

\* C4: ensureConnected() on a `connected` Session whose liveness probe fails
\* releases the handle, runs the connect sequence exactly once and returns or
\* raises with the state `connected` (handshake succeeded) or `disconnected`
\* (handshake failed), never `connecting`.
C4_ReconnectOnce ==
  [][\A c \in Calls :
       /\ (calls[c].pc = "probe" /\ calls[c].op = "ensureConnected"
             /\ calls'[c].probe = "fail")
            => /\ calls'[c].pc = "handshake" /\ calls'[c].hs = 1
               /\ state' = "connecting"
               /\ calls[c].h # 0 => /\ client' # calls[c].h
                                    /\ hstat'[calls[c].h] \notin {"opening", "ready"}
       /\ (calls[c].op = "ensureConnected" /\ calls[c].probe = "fail" /\ Returns(c))
            => /\ calls'[c].hs = 1
               /\ \/ calls'[c].res = "ok" /\ state' = "connected"
                  \/ calls'[c].res \in ErrorCodes /\ state' = "disconnected"]_vars

\* C5: connect() on a `disconnected` Session sets the state to `connecting`,
\* runs the handshake and ends `connected` if it succeeds; if it fails for
\* any reason (timeout included) the state ends `disconnected` and the
\* classified error is raised.
C5_ConnectOutcome ==
  [][\A c \in Calls :
       /\ (calls[c].pc = "queued" /\ calls[c].op = "connect" /\ calls'[c].pc # "queued"
             /\ state = "disconnected" /\ config)
            => \/ state' = "connecting" /\ calls'[c].pc = "handshake"
               \/ state' = "disconnected" /\ calls'[c].pc = "done"
                    /\ calls'[c].res \in ErrorCodes
       /\ (calls[c].pc = "handshake" /\ calls[c].op = "connect" /\ Returns(c))
            => \/ calls'[c].res = "ok" /\ state' = "connected"
               \/ calls'[c].res \in ErrorCodes /\ state' = "disconnected"]_vars

\* a connect() from `disconnected` has failed with a classified error
C5_Witness ==
  \E c \in Calls :
    /\ calls[c].op = "connect" /\ calls[c].stBody = "disconnected"
    /\ calls[c].pc = "done" /\ calls[c].hs = 1
    /\ calls[c].res = "AUTH_FAILED" /\ state = "disconnected"

\* C6: connect() on a `connected` Session runs no handshake and leaves the
\* state and the transport handle unchanged.
C6_ConnectNoop ==
  [][\A c \in Calls :
       (calls[c].pc = "queued" /\ calls[c].op = "connect" /\ calls'[c].pc # "queued"
          /\ state = "connected")
         => /\ calls'[c].pc = "done" /\ calls'[c].res = "ok" /\ calls'[c].hs = 0
            /\ state' = state /\ client' = client /\ hstat' = hstat]_vars

\* connect() has returned from a Session that was `connected`
C6_Witness ==
  \E c \in Calls :
    /\ calls[c].op = "connect" /\ calls[c].stBody = "connected"
    /\ calls[c].pc = "done" /\ state = "connected"

\* C7: disconnect() on a `connected` Session always ends `disconnected` and
\* returns without raising, even when closing the transport fails or does not
\* answer; disconnect() on a `disconnected` Session changes nothing.
C7_DisconnectNeverRaises ==
  [][\A c \in Calls :
       /\ (calls[c].op = "disconnect" /\ Returns(c) /\ calls'[c].stBody = "connected")
            => state' = "disconnected" /\ calls'[c].res = "ok"
       /\ (calls[c].pc = "queued" /\ calls[c].op = "disconnect" /\ calls'[c].pc # "queued"
             /\ state = "disconnected")
            => /\ calls'[c].pc = "done" /\ calls'[c].res = "ok"
               /\ state' = state /\ client' = client /\ hstat' = hstat]_vars

\* C10: exec() on a `connected` Session first runs a liveness probe; if the
\* probe fails the state becomes `disconnected`, exec raises SOCKET_DEAD and
\* the command is never issued.
C10_ExecProbesFirst ==
  [][\A c \in Calls :
       calls'[c].op = "exec" =>
         /\ (~calls[c].issued /\ calls'[c].issued) => calls'[c].probe = "ok"
         /\ (calls[c].probe = "none" /\ calls'[c].probe = "fail")
              => /\ state' = "disconnected"
                 /\ calls'[c].pc = "done" /\ calls'[c].res = "SOCKET_DEAD"
                 /\ ~calls'[c].issued]_vars

\* C11: when the timeout of an exec() elapses before its command completes,
\* exec raises TIMEOUT and the remote process has been told to abort; the
\* error is returned in the same step, without waiting for the abort.
C11_TimeoutAborts ==
  [][\A c \in Calls :
       (calls[c].op = "exec" /\ calls[c].pc = "running" /\ Returns(c)
          /\ calls'[c].res = "TIMEOUT")
         => calls'[c].aborted]_vars

\* C23: every failure of upload() or download() on a `connected` Session
\* other than a timeout, whether it occurs while opening the transfer channel
\* or during the copy, is raised to the caller with code COMMAND_FAILED.
C23_TransferFailureIsCommandFailed ==
  [][\A c \in Calls :
       (calls[c].op \in {"upload", "download"} /\ calls[c].pc \in {"sftp", "copy"}
          /\ Returns(c) /\ calls'[c].res \notin {"ok", "TIMEOUT"})
         => calls'[c].res = "COMMAND_FAILED"]_vars

\* ---------------------------------------------------------------- SpecOut
\* the suffix as the claim words it: "...[truncated at {cap} bytes]"
StatedSuffix(cap) == <<".", ".", ".", "[truncated at ", ToString(cap), " bytes]">>

\* C8: a stream whose total size exceeds the cap, whatever the chunk
\* boundaries, is returned as exactly its first cap bytes followed by the
\* suffix "...[truncated at {cap} bytes]".
C8_TruncatedAtCap ==
  (col.pc = "done" /\ Len(col.content) > col.cap)
    => /\ col.thrown = "none"
       /\ col.out = Decode(SubSeq(col.content, 1, col.cap)) \o StatedSuffix(col.cap)

\* C9: a stream whose total size is at most the cap (N = cap included) is
\* returned unchanged, with no truncation suffix, together with the
\* command's exit code.
C9_WithinCapUnchanged ==
  (col.pc = "done" /\ Len(col.content) <= col.cap)
    => /\ col.thrown = "none"
       /\ col.out = Decode(col.content)
       /\ ~col.signalled => col.exitCode = col.code

\* a stream of exactly cap bytes that arrived in several chunks was returned
C9_Witness ==
  /\ col.pc = "done"
  /\ col.cap >= 2
  /\ Len(col.content) = col.cap
  /\ col.bytes = col.cap
  /\ col.out = Decode(col.content)
  /\ col.code = 1 /\ col.exitCode = 1

\* ---------------------------------------------------------------- SpecReg
\* a synchronous registry call returns in this step
Resolves == last = IdleLast /\ last'.op = "resolve"

C13_ResolvedIsRegistered ==
  [][Resolves =>
       /\ last'.res \in {"ok", "INVALID_STATE"}
       /\ last'.res = "ok" => has(last'.out)
       /\ managers = <<>> => last'.res = "INVALID_STATE"
       /\ (last'.arg # NULL /\ ~has(last'.arg)) => last'.res = "INVALID_STATE"]_vars

\* registry call k returns in this step
RReturns(k) == rcalls[k].pc # "done" /\ rcalls'[k].pc = "done"
ConnectOrder == <<"resolveName", "ensureKeysInAgent", "ensureConnected", "activeServer">>

Switches == last = IdleLast /\ last'.op = "switchTo"

\* C15: switchTo(name) sets the active name to name when name is registered;
\* when name is not registered it fails with INVALID_STATE and leaves the
\* active name unchanged.  It never changes any Session's state.
C15_SwitchTo ==
  [][Switches =>
       /\ has(last'.arg) => (last'.res = "ok" /\ activeServer' = last'.arg)
       /\ ~has(last'.arg) => (last'.res = "INVALID_STATE" /\ activeServer' = activeServer)
       /\ sessions' = sessions]_vars

\* switchTo of an unregistered name has failed while b is active and connected
C15_Witness ==
  /\ last.op = "switchTo" /\ last.res = "INVALID_STATE" /\ ~has(last.arg)
  /\ activeServer = "b"
  /\ sessions["b"].state = "connected"

\* C16: registry disconnect(name) with a given name disconnects that Session
\* only; afterwards the active name is cleared if it equalled name and is
\* unchanged otherwise, and no other Session's state has changed.
C16_DisconnectNamed ==
  [][\A k \in RCalls :
       (RReturns(k) /\ rcalls'[k].op = "disconnect" /\ rcalls'[k].arg # NULL)
         => LET name == rcalls'[k].arg IN
              \* the one Session operation the call made is on that Session
              /\ rcalls'[k].visited = <<>>
              /\ rcalls'[k].name \in {name, NULL}
              /\ (has(name) /\ rcalls'[k].alone) => sessions'[name].state = "disconnected"
              /\ activeServer' = (IF activeServer = name THEN NULL ELSE activeServer)
              /\ \A n \in ServerNames \ {name} : sessions'[n].state = sessions[n].state]_vars

\* C17: registry disconnect() with no name attempts disconnect on every
\* registered Session, continues past any Session whose disconnect fails,
\* never raises, and ends with the active name cleared; when no other
\* operation runs concurrently every Session is then `disconnected` and
\* connectedCount is 0.
C17_DisconnectAll ==
  [][\A k \in RCalls :
       (RReturns(k) /\ rcalls'[k].op = "disconnect" /\ rcalls'[k].arg = NULL)
         => /\ rcalls'[k].visited = managers
            /\ rcalls'[k].res = "ok"
            /\ activeServer' = NULL
            /\ rcalls'[k].alone
                 => /\ \A i \in DOMAIN managers :
                         sessions'[managers[i]].state = "disconnected"
                    /\ connectedCount' = 0]_vars

\* after a connect, disconnect() ran alone over three Sessions, one of whose
\* disconnect failed, and has returned
C17_Witness ==
  /\ Len(managers) = 3
  /\ rcalls[1].op = "connect" /\ rcalls[1].res = "ok"
  /\ rcalls[2].op = "disconnect" /\ rcalls[2].arg = NULL /\ rcalls[2].pc = "done"
  /\ rcalls[2].alone /\ rcalls[2].swallowed
  /\ rcalls[2].visited = managers
  /\ activeServer = NULL /\ connectedCount = 0

\* ---------------------------------------------------------------- SpecKeys
\* the identity paths the loader processed, in order
Candidates == [i \in DOMAIN ldr.log |-> ldr.log[i].key]
Expanded(paths) == [i \in DOMAIN paths |-> expandTildePathPublic(paths[i])]
SinglePath == IF ldr.cfg.keyPath \in {NULL, ""} THEN <<>> ELSE <<ldr.cfg.keyPath>>

\* C18: the loader takes its candidate identity paths from the first
\* non-empty source in the order (1) single explicit identity path,
\* (2) explicit list of identity paths, (3) host-alias matches; once a higher
\* source yields a candidate, no lower source is consulted or contributes.
C18_FirstSourceWins ==
  ldr.pc = "done" =>
    /\ Candidates = Expanded(IF SinglePath # <<>> THEN SinglePath
                             ELSE IF ldr.cfg.keys # <<>> THEN ldr.cfg.keys
                             ELSE ldr.cfg.hostKeys)
    /\ ldr.consulted <=> (SinglePath = <<>> /\ ldr.cfg.keys = <<>>)

\* the stated order of the invocation strategies
Rank(label) ==
  CASE label = "windows-openssh" -> 1
    [] label = "path-default" -> 2
    [] label = "path-with-agent" -> 3

\* C19: for each candidate key the loader tries its invocation strategies in
\* the fixed order (native agent-add binary with endpoint override, then
\* generic agent-add with default environment, then generic agent-add with
\* endpoint override) and stops at the first strategy that completes without
\* error; no later strategy is run for that key.
C19_StrategyOrder ==
  ldr.pc = "done" =>
    \A i \in DOMAIN ldr.log :
      LET t == ldr.log[i].tried
          ok(j) == t[j].label \in ldr.oks[i] IN
        /\ t # <<>>
        /\ \A j \in DOMAIN t :
             /\ t[j].command = (IF Rank(t[j].label) = 1 THEN "ssh-add.exe" ELSE "ssh-add")
             /\ t[j].override = (Rank(t[j].label) # 2)
             /\ j > 1 => Rank(t[j - 1].label) < Rank(t[j].label)
             \* a strategy is run only if all before it failed
             /\ j < Len(t) => ~ok(j)
        \* none of the strategies the platform offers is skipped
        /\ t = SubSeq(attempts(env), 1, Len(t))
        /\ ldr.log[i].success <=> ok(Len(t))
        /\ ~ldr.log[i].success => (Len(t) = Len(attempts(env)) /\ ldr.log[i].warned)

\* on Windows with the native binary: for some key the native strategy
\* failed, the generic one succeeded, and the third, which would have
\* succeeded too, was not run
C19_Witness ==
  /\ ldr.pc = "done"
  /\ env.windows /\ env.openSshAdd
  /\ \E i \in DOMAIN ldr.log :
       /\ Len(ldr.log[i].tried) = 2
       /\ ldr.log[i].success
       /\ ldr.oks[i] = {"path-default", "path-with-agent"}

\* registry call k is made in this step
RIssues(k) == rcalls[k].pc = "idle" /\ rcalls'[k].pc # "idle"

\* C20: a credential-loading failure is never fatal: when every strategy
\* fails for a key the loader still processes the remaining keys, and
\* whatever the loader's outcome registry connect() still calls
\* ensureConnected(), so the only error the caller can see from unusable
\* identities is the handshake's own.
C20_LoaderNeverFatal ==
  [][\A k \in RCalls :
       /\ (RIssues(k) /\ rcalls'[k].op = "connect"
             /\ rcalls'[k].steps # <<"resolveName">>)
            => LET c == rcalls'[k] IN
                 /\ c.steps = SubSeq(ConnectOrder, 1, 3)
                 /\ c.sop = "ensureConnected" /\ has(c.name)
                 \* every candidate key was processed, failed ones included
                 /\ [i \in DOMAIN c.log |-> c.log[i].key]
                      = [i \in DOMAIN keyPaths(servers[c.name]) |->
                           expandTildePathPublic(keyPaths(servers[c.name])[i])]
                 /\ \A i \in DOMAIN c.log : c.log[i].tried # <<>>
       /\ (RReturns(k) /\ rcalls'[k].op = "connect" /\ rcalls'[k].res # "ok")
            => \/ rcalls'[k].steps = <<"resolveName">> /\ rcalls'[k].res = "INVALID_STATE"
               \/ /\ rcalls'[k].steps = SubSeq(ConnectOrder, 1, 3)
                  /\ rcalls'[k].res = rcalls'[k].sres
                  /\ rcalls'[k].res \in {"AUTH_FAILED", "UNREACHABLE", "COMMAND_FAILED",
                                        "TIMEOUT", "INVALID_STATE"}]_vars

\* connect(b): every strategy failed for b's first key, the second key was
\* still processed, and ensureConnected() is under way
C20_Witness ==
  \E k \in RCalls :
    /\ rcalls[k].op = "connect" /\ rcalls[k].name = "b" /\ rcalls[k].pc = "handshake"
    /\ Len(rcalls[k].log) = 2
    /\ ~rcalls[k].log[1].success /\ rcalls[k].log[1].warned
    /\ rcalls[k].log[2].success

\* ---------------------------------------------------------------- SpecErr
\* the text contains the indicator phrase, whatever the case of its letters
ContainsIgnoringCase(text, ind) ==
  LET phrase == PhraseWords(ind) IN
    \E i \in 1..(Len(text) - Len(phrase) + 1) :
      \A j \in DOMAIN phrase : LowerWord(text[i + j - 1]) = phrase[j]
AuthText ==
  \E ind \in (IF impl = "ssh2" THEN AuthIndicators ELSE CliAuthIndicators) :
    ContainsIgnoringCase(pure.text, ind)
ReachText ==
  \E ind \in (IF impl = "ssh2" THEN ReachIndicators ELSE CliReachIndicators) :
    ContainsIgnoringCase(pure.text, ind)
\* the failure carries an exit code of the remote command itself
RemoteExit == pure.exitCode \notin {0, 255}

\* C21: error classification checks indicators in priority order with
\* case-insensitive substring matching: a text containing an authentication
\* indicator is AUTH_FAILED even if it also contains a reachability
\* indicator; otherwise a text containing a reachability indicator is
\* UNREACHABLE; a text containing neither is COMMAND_FAILED.  (A failure
\* with the remote command's own exit code is the subject of C22.)
C21_IndicatorPriority ==
  (pure.pc = "done" /\ ~RemoteExit) =>
    pure.code = (IF AuthText THEN "AUTH_FAILED"
                 ELSE IF ReachText THEN "UNREACHABLE"
                 ELSE "COMMAND_FAILED")

\* C22: a failure carrying a non-zero exit code of the remote command itself
\* (any code other than the transport-failure code 255) is classified
\* COMMAND_FAILED whatever its error text contains, authentication or
\* reachability indicators included.
C22_RemoteExitIsCommandFailed ==
  (pure.pc = "done" /\ RemoteExit) => pure.code = "COMMAND_FAILED"

\* exit code 1 with an authentication and a reachability indicator in the
\* text has been classified COMMAND_FAILED
C22_Witness ==
  /\ pure.pc = "done" /\ pure.exitCode = 1
  /\ AuthText /\ ReachText
  /\ pure.code = "COMMAND_FAILED"

\* --------------------------------------------------------------- SpecSock
Blank(v) == \A i \in DOMAIN v : v[i] = " "
\* the value without its surrounding white space
Bare(v) == trim(v)
NativePipe(v) == isWindowsPipe(Bare(v))
PosixPath(v) == Bare(v) # <<>> /\ Head(Bare(v)) = "/" /\ ~NativePipe(v)
Sentinel(v) == Len(Bare(v)) = 1 /\ LowerWord(Bare(v)[1]) = "pageant"

C25_SentinelUnchanged ==
  (pure.pc = "done" /\ pure.isWin /\ pure.sshAuthSock.def
     /\ toLowerCase(pure.sshAuthSock.s) = <<"pageant">>)
    => pure.out = pure.sshAuthSock

\* C25 (amended): on the named-pipe platform a value that, ignoring letter
\* case and surrounding white space, equals the sentinel is recognised as
\* the sentinel and resolved to the lower-case spelling "pageant", which is
\* the value unchanged only when it was written that way.
C25_SentinelLowerCased ==
  (pure.pc = "done" /\ pure.isWin /\ pure.sshAuthSock.def
     /\ Sentinel(pure.sshAuthSock.s))
    => pure.out = Str(<<"pageant">>)

\* the mixed-case spelling has been resolved to the lower-case sentinel
C25_Witness ==
  /\ pure.pc = "done" /\ pure.isWin
  /\ pure.sshAuthSock = Str(<<"PaGeAnT">>)
  /\ pure.out = Str(<<"pageant">>)

\* -------------------------------------------------------------- SpecShort
Root == <<"r", "o", "o", "t">>
\* String(n): the decimal numeral of a natural number
RECURSIVE String(_)
String(n) ==
  LET digit == <<"0", "1", "2", "3", "4", "5", "6", "7", "8", "9">>[(n % 10) + 1]
  IN IF n < 10 THEN <<digit>> ELSE Append(String(n \div 10), digit)
\* the positive integers whose numeral is p (one at most)
PortsWritten(p) ==
  LET RECURSIVE Read(_)
      Read(d) == IF d = <<>> THEN 0
                 ELSE 10 * Read(SubSeq(d, 1, Len(d) - 1)) + (IF d[Len(d)] = "1" THEN 1 ELSE 0)
  IN IF p # <<>> /\ \A i \in DOMAIN p : p[i] \in {"0", "1"}
     THEN {n \in {Read(p)} : n > 0 /\ String(n) = p}
     ELSE {}
\* the ways to read the input as [user@]host[:port] with a valid user, a
\* valid host and the numeral of a positive integer port, each with the
\* result the grammar gives it
Readings(input) ==
  LET n == Len(input)
      Ats == {0} \cup {i \in 1..n : input[i] = "@"}
      Colons == {n + 1} \cup {j \in 1..n : input[j] = ":"}
  IN UNION {
       LET u == SubSeq(input, 1, i - 1)
           h == SubSeq(input, i + 1, j - 1)
           p == SubSeq(input, j + 1, n)
       IN IF /\ i < j
             /\ SAFE_HOST_PATTERN(h)
             /\ i > 0 => SAFE_USER_PATTERN(u)
          THEN {[thrown |-> "none", host |-> h,
                 user |-> IF i = 0 THEN Root ELSE u, port |-> port] :
                  port \in IF j = n + 1 THEN {22} ELSE PortsWritten(p)}
          ELSE {} : i \in Ats, j \in Colons}

\* C26: for every valid user, valid host and positive integer port,
\* parseServerShorthand applied to "host", "user@host", "host:port" and
\* "user@host:port" returns exactly that host, user and port, with user
\* "root" and port 22 when omitted.
C26_ShorthandRoundTrip ==
  pure.pc = "done" => \A reading \in Readings(pure.input) : pure.out = reading

\* "a@a:1" has been parsed into user a, host a, port 1
C26_Witness ==
  /\ pure.pc = "done"
  /\ pure.input = <<"a", "@", "a", ":", "1">>
  /\ pure.out = [thrown |-> "none", host |-> <<"a">>, user |-> <<"a">>, port |-> 1]

\* the user part and the host part of an input: the user is what precedes
\* the first "@" ("root" without one); the host is what follows, without
\* the ":port" suffix when what follows the last ":" converts to a positive
\* integer
Fields(input) ==
  LET n == Len(input)
      ats == {i \in 1..n : input[i] = "@"}
      a == IF ats = {} THEN 0 ELSE CHOOSE i \in ats : \A k \in ats : i <= k
      rest == SubSeq(input, a + 1, n)
      colons == {j \in 1..Len(rest) : rest[j] = ":"}
      c == IF colons = {} THEN 0 ELSE CHOOSE j \in colons : \A k \in colons : k <= j
      num == Number(SubSeq(rest, c + 1, Len(rest)))
      isPort == c > 0 /\ ~num.nan /\ num.whole /\ ~num.neg /\ num.int > 0
  IN [user |-> IF a = 0 THEN Root ELSE SubSeq(input, 1, a - 1),
      host |-> IF isPort THEN SubSeq(rest, 1, c - 1) ELSE rest]

\* C27: parseServerShorthand raises a parse error that names the offending
\* field whenever the host part or the user part of the input does not match
\* its pattern (the host when both do not), and it never returns a result
\* with a malformed host or user.
C27_MalformedFieldNamed ==
  pure.pc = "done" =>
    LET f == Fields(pure.input) IN
      /\ ~SAFE_HOST_PATTERN(f.host)
           => pure.out = [thrown |-> "Invalid host", value |-> f.host]
      /\ (SAFE_HOST_PATTERN(f.host) /\ ~SAFE_USER_PATTERN(f.user))
           => pure.out = [thrown |-> "Invalid user", value |-> f.user]
      /\ pure.out.thrown = "none"
           => SAFE_HOST_PATTERN(pure.out.host) /\ SAFE_USER_PATTERN(pure.out.user)

\* "1@a" has been refused for its user, "1"
C27_Witness ==
  /\ pure.pc = "done"
  /\ pure.input = <<"1", "@", "a">>
  /\ pure.out = [thrown |-> "Invalid user", value |-> <<"1">>]

\* ---------------------------------------------------- SpecReg, Sessions
\* an operation or a transport event of Session m itself acts in this step:
\* an operation in progress on m advances, a call waiting for m's lock gets
\* to run, the registry starts an operation of m, or m's transport closes or
\* fails while connected
OwnStep(m) ==
  \/ \E k \in RCalls : /\ rcalls[k].name = m
                       /\ rcalls[k].pc \in {"handshake", "probe", "settled"}
                       /\ rcalls'[k] # rcalls[k]
  \/ \E k \in RCalls : /\ rcalls[k].name = m
                       /\ rcalls[k].pc = "queued" /\ rcalls'[k].pc # "queued"
  \/ \E k \in RCalls : /\ rcalls'[k].name = m /\ rcalls'[k].sop # "none"
                       /\ rcalls[k].name # m \/ rcalls[k].pc = "idle"
  \/ /\ rcalls' = rcalls
     /\ sessions[m].state = "connected"
     /\ \A n \in ServerNames \ {m} : sessions'[n] = sessions[n]

\* C28: Sessions are independent: the state and the handle of a Session
\* change only in a step of one of its own operations or transport events,
\* never by those of another Session; and a call waits only on the lock of
\* the Session it works on, behind a call working on that same Session.
C28_SessionsIndependent ==
  /\ [](\A n \in ServerNames : \A i \in DOMAIN sessions[n].lock :
          rcalls[sessions[n].lock[i]].name = n)
  /\ [](\A k \in RCalls : rcalls[k].pc = "queued" =>
          \E i \in 2..Len(sessions[rcalls[k].name].lock) :
             sessions[rcalls[k].name].lock[i] = k)
  /\ [][\A m \in ServerNames :
          (sessions'[m].state # sessions[m].state \/ sessions'[m].client # sessions[m].client)
            => OwnStep(m)]_vars

\* two Sessions are each in the handshake of their own call at once: each
\* call holds the lock of its own Session and neither waits
C28_Witness ==
  \E j, k \in RCalls :
    /\ rcalls[j].name # rcalls[k].name
    /\ rcalls[j].pc = "handshake" /\ rcalls[k].pc = "handshake"
    /\ sessions[rcalls[j].name].lock = <<j>> /\ sessions[rcalls[k].name].lock = <<k>>
    /\ sessions[rcalls[j].name].state = "connecting"
    /\ sessions[rcalls[k].name].state = "connecting"

\* C29: the per-session lock is single-permit and FIFO: the bodies of
\* connect/disconnect/ensureConnected calls on one Session execute one at a
\* time, in the order the calls were made, and a call whose body raises
\* still releases the lock so that the next waiting call runs.
C29_LockIsFifo ==
  /\ [](Cardinality({c \in Calls : calls[c].op \in LockedOps
                                     /\ calls[c].pc \notin {"idle", "queued", "done"}}) <= 1)
  /\ [][\A c \in Calls :
          /\ (calls[c].pc = "queued" /\ calls'[c].pc # "queued")
               => \A d \in Calls :
                    (d < c /\ calls[d].op \in LockedOps) => calls[d].pc = "done"
          /\ (calls[c].op \in LockedOps /\ Returns(c))
               => /\ \A i \in DOMAIN mutex' : mutex'[i] # c
                  /\ mutex' # <<>> => /\ calls'[Head(mutex')].pc = "queued"
                                      /\ \A d \in Calls :
                                           (d < Head(mutex') /\ calls'[d].op \in LockedOps)
                                             => calls'[d].pc = "done"]_vars

\* a lock-protected call made while an earlier one was running its body has
\* run its own body after the earlier one raised
C29_Witness ==
  \E c, d \in Calls :
    /\ c < d
    /\ calls[c].op \in LockedOps /\ calls[d].op \in {"disconnect", "ensureConnected"}
    /\ calls[c].pc = "done" /\ calls[c].res \notin {"ok", "none"}
    /\ calls[c].hs = 1
    /\ calls[d].pc = "done" /\ calls[d].stBody = "disconnected"
    /\ mutex = <<>>

\* C30: exec, upload and download do not take the per-session lock: a call
\* made while connect, disconnect or ensureConnected holds the lock is not
\* queued behind it; in the step in which it is made it proceeds to its
\* transport operation or fails its state check, and the lock chain is left
\* as it was.
C30_FreeOpsSkipLock ==
  /\ [](\A c \in Calls : calls[c].op \in FreeOps =>
          /\ calls[c].pc # "queued"
          /\ \A i \in DOMAIN mutex : mutex[i] # c)
  /\ [][\A c \in Calls :
          (Issues(c) /\ calls'[c].op \in FreeOps) =>
             /\ mutex' = mutex
             /\ \/ state = "connected" /\ calls'[c].pc \in {"running", "probe", "sftp", "copy"}
                \/ calls'[c].pc = "done" /\ calls'[c].res = "INVALID_STATE"
             /\ state # "connected" => calls'[c].pc = "done"]_vars

\* while an ensureConnected() call holds the lock and waits for its liveness
\* probe, an exec, upload or download made after it is at its transport
\* operation
C30_Witness ==
  \E c, d \in Calls :
    /\ d < c
    /\ calls[d].op = "ensureConnected" /\ calls[d].pc = "probe"
    /\ mutex = <<d>>
    /\ calls[c].op \in FreeOps /\ calls[c].pc \in {"running", "probe", "sftp", "copy"}

\* ------------------------------------------------- Spec, timers and races
\* C31: if the handshake has not completed when its timer fires, connect()
\* and ensureConnected() raise TIMEOUT, the in-flight handshake is
\* terminated, and the Session's state becomes `disconnected`.
C31_HandshakeTimeout ==
  [][\A c \in Calls :
       (calls[c].pc = "handshake" /\ Returns(c) /\ calls'[c].res = "TIMEOUT")
         => /\ state' = "disconnected"
            /\ hstat'[calls[c].h] \notin {"opening", "ready"}]_vars

\* C32: ensureConnected() on a `connected` Session whose liveness probe
\* succeeds runs no handshake and leaves the state and the transport handle
\* unchanged.
C32_ProbeSuccessIsNoop ==
  [][\A c \in Calls :
       (calls[c].op = "ensureConnected" /\ calls[c].pc = "probe"
          /\ calls'[c].probe = "ok")
         => /\ Returns(c) /\ calls'[c].res = "ok" /\ calls'[c].hs = 0
            /\ calls[c].stBody = "connected"
            /\ state' = state /\ client' = client /\ hstat' = hstat]_vars

\* an ensureConnected() found the Session connected, probed it with success
\* and returned; the Session is connected on the handle it had
C32_Witness ==
  \E c, d \in Calls :
    /\ calls[d].op = "connect" /\ calls[d].pc = "done" /\ calls[d].res = "ok"
    /\ calls[c].op = "ensureConnected" /\ calls[c].pc = "done"
    /\ calls[c].probe = "ok" /\ calls[c].res = "ok" /\ calls[c].hs = 0
    /\ state = "connected"
    /\ \E h \in Handles : hstat[h] = "ready"

\* ---------------------------------------------------------------- SpecLive
\* C33: every upload() or download() call on a `connected` Session
\* eventually returns, even if the transport never reports completion of the
\* channel open or of the copy.
C33_TransferReturns ==
  \A c \in Calls :
    (calls[c].op \in {"upload", "download"} /\ calls[c].pc \in {"sftp", "copy"})
      ~> (calls[c].pc = "done")

\* C34: every connect(), ensureConnected() and disconnect() call eventually
\* returns and releases the per-session lock, even if the transport never
\* answers the handshake, the liveness probe or the close request (timers
\* fire); hence a later lock-protected call is never blocked forever.
C34_LockedCallsReturn ==
  \A c \in Calls :
    (calls[c].op \in LockedOps /\ calls[c].pc # "done")
      ~> (calls[c].pc = "done" /\ \A i \in DOMAIN mutex : mutex[i] # c)

\* C35: a close or error event delivered by a transport handle that the
\* Session has already released never changes the state or the current
\* handle of the Session once it has connected again with a new handle.
C35_StaleEventIgnored ==
  [][\A h \in Handles :
       (/\ state = "connected" /\ client # 0 /\ client # h
        /\ hstat[client] = "ready"
        /\ hstat[h] \in {"ready", "closing"} /\ hstat'[h] # hstat[h]
        /\ calls' = calls)
         => state' = state /\ client' = client]_vars

\* a connect/disconnect/ensureConnected body is executing
BodyRunning == \E c \in Calls : calls[c].op \in LockedOps
                                  /\ calls[c].pc \notin {"idle", "queued", "done"}

\* C36: whenever no connect/disconnect/ensureConnected body is executing on
\* a Session, its state is `connected` or `disconnected`; consequently no
\* such call observes `connecting` or `disconnecting` when its body starts.
C36_SettledBetweenBodies ==
  /\ ~BodyRunning => state \in {"connected", "disconnected"}
  /\ \A c \in Calls : calls[c].stBody \in {"none", "connected", "disconnected"}

\* a lock-protected call made while a connect() was in its handshake started
\* its body after that handshake timed out, on a `disconnected` Session, and
\* has returned; no body is executing
C36_Witness ==
  \E c, d \in Calls :
    /\ calls[d].op \in LockedOps /\ calls[d].after = c
    /\ calls[c].pc = "done" /\ calls[c].res = "TIMEOUT"
    /\ calls[d].pc = "done" /\ calls[d].stBody = "disconnected"
    /\ ~BodyRunning /\ state \in {"connected", "disconnected"}

\* C37: every change of a Session's state is one of the transitions
\* disconnected->connecting, connecting->connected, connecting->disconnected,
\* connected->disconnecting, disconnecting->disconnected,
\* connected->connecting or connected->disconnected; in particular the state
\* never goes from `disconnected` directly to `connected`.
C37_StateTransitions ==
  [][state' # state =>
       <<state, state'>> \in {<<"disconnected", "connecting">>,
                              <<"connecting", "connected">>,
                              <<"connecting", "disconnected">>,
                              <<"connected", "disconnecting">>,
                              <<"disconnecting", "disconnected">>,
                              <<"connected", "connecting">>,
                              <<"connected", "disconnected">>}]_vars

\* C38: exec() issues its command to the transport only while the Session's
\* state is `connected`: if a disconnect starts or completes between exec's
\* state check (or liveness probe) and the point where the command would be
\* issued, the command is not sent.
C38_IssuedOnlyConnected ==
  [][\A c \in Calls :
       (calls'[c].op = "exec" /\ ~calls[c].issued /\ calls'[c].issued)
         => state = "connected" /\ state' = "connected"]_vars

\* C39: a liveness-probe failure inside exec() sets the state to
\* `disconnected` only if the Session is still `connected`: it never
\* overwrites `connecting` or `disconnecting`.
C39_ProbeFailureKeepsBusyState ==
  [][\A c \in Calls :
       (calls[c].op = "exec" /\ calls[c].pc = "probe" /\ calls'[c].probe = "fail")
         => (state \in {"connecting", "disconnecting"} => state' = state)]_vars

\* ---------------------------------------------------- SpecReg, active name
\* C40: a registry connect(name?) that fails, whether in name resolution or
\* in the handshake, leaves the active name unchanged; the active name is at
\* all times either unset or a registered name.
C40_ActiveNameStable ==
  /\ [](activeServer = NULL \/ has(activeServer))
  /\ [][\A k \in RCalls :
          (rcalls'[k].op = "connect" /\ RReturns(k) /\ rcalls'[k].res # "ok")
            => activeServer' = activeServer]_vars

\* a connect() of another server failed in its handshake while a server was
\* active, and that server is still the active one
C40_Witness ==
  \E j, k \in RCalls :
    /\ rcalls[j].op = "connect" /\ rcalls[j].pc = "done" /\ rcalls[j].res = "ok"
    /\ rcalls[k].op = "connect" /\ rcalls[k].pc = "done"
    /\ rcalls[k].res \in {"TIMEOUT", "AUTH_FAILED", "UNREACHABLE", "COMMAND_FAILED"}
    /\ "ensureConnected" \in {rcalls[k].steps[i] : i \in DOMAIN rcalls[k].steps}
    /\ rcalls[k].name # rcalls[j].name
    /\ activeServer = rcalls[j].out /\ has(activeServer)

====
